---- MODULE Spec2Model ----
(***************************************************************************)
(* Model of the FricoAi vegetable recognition orchestration layer:         *)
(*   routes/ai-recognition.js            heuristics, mode selection and     *)
(*                                       the single / multiple paths        *)
(*   vegetable-classifier-clean/src/     VegetableClassifier and            *)
(*                                       MultiVegetableDetector             *)
(*                                                                         *)
(* Numbers.  Confidences are the integer percents Math.round produces.     *)
(* The prediction diversity 1 - diff/100 is kept as the integer            *)
(* 100 - diff (percent); the complexity fileSize / 2 MiB is kept as the    *)
(* fraction num/den.  Every comparison of the source against a decimal     *)
(* constant is done by cross multiplication, which agrees with the IEEE    *)
(* double comparison of the source on all integer inputs.                  *)
(***************************************************************************)
EXTENDS Integers, Sequences, FiniteSets, TLC

VARIABLES
  heur,              \* SpecUnknown: one application of shouldClassifyAsUnknown
  modeSel,           \* SpecMode: one call of determineDetectionMode
  agg,               \* SpecAgg: the zone loop, recovery pass and aggregation
  \* Spec: one POST /recognize-vegetable request
  pc,                \* where the request handler stands
  image,             \* the uploaded image: size, dimensions, what the model sees
  faults,            \* failures of the environment injected so far
  classifier,        \* the shared VegetableClassifier: "null", "unloaded", "loaded"
  multiDetector,     \* the shared MultiVegetableDetector, likewise
  detectionAnalysis, \* what determineDetectionMode returned
  det,               \* the frame of the detectMultipleVegetables call
  tempDir,           \* whether the directory temp_zones exists
  tempFiles,         \* the files in temp_zones
  created,           \* every zone file a sharp().toFile() call has left behind
  deleted,           \* the paths fs.unlinkSync removed, in order
  response,          \* what the route answers
  call,              \* SpecTotal, SpecComplexity: one call of one function
  grid,              \* SpecGrid: the cell loop of createImageGrid on one image
  service,           \* SpecService: the module's classifiers and the calls in flight
  tiling             \* SpecTiling: detection calls sharing the directory temp_zones

pureVars == <<heur, modeSel, agg>>
flowVars == <<pc, image, faults, classifier, multiDetector, detectionAnalysis,
              det, tempDir, tempFiles, created, deleted, response>>
concVars == <<service, tiling>>
harnessVars == <<call, grid, service, tiling>>
vars == <<heur, modeSel, agg, pc, image, faults, classifier, multiDetector,
          detectionAnalysis, det, tempDir, tempFiles, created, deleted, response,
          call, grid, service, tiling>>

Min(a, b) == IF a <= b THEN a ELSE b
Max(a, b) == IF a >= b THEN a ELSE b

(***************************************************************************)
(* The classifier                                                          *)
(***************************************************************************)
\* this.classNames of VegetableClassifier, in model output order
classNames == <<"Tomate", "Carotte", "Pomme de terre">>

\* the literal ['Tomate', 'Carotte', 'Pomme de terre'] of the heuristics
knownVegetables == {"Tomate", "Carotte", "Pomme de terre"}

Pred(c, n) == [class |-> c, confidence |-> n]

\* results.sort((a, b) => b.probability - a.probability): confidences descend
IsSortedDesc(preds) ==
  \A i \in 1..(Len(preds) - 1) : preds[i].confidence >= preds[i + 1].confidence

(***************************************************************************)
(* analyzeImageComplexity                                                  *)
(***************************************************************************)
ComplexityCap == 2 * 1024 * 1024

\* complexity > p/q
ComplexityGT(ia, p, q) == ia.complexity.num * q > p * ia.complexity.den

\* plausible slip: the Math.min(..., 1) is left out
analyzeImageComplexityUncapped(fileSize, statOk) ==
  IF statOk
    THEN [complexity |-> [num |-> fileSize, den |-> ComplexityCap],
          regions    |-> ((4 * fileSize) \div ComplexityCap) + 1,
          fileSize   |-> fileSize]
    ELSE [complexity |-> [num |-> 3, den |-> 10],
          regions    |-> 1,
          fileSize   |-> 0]

analyzeImageComplexity(fileSize, statOk) ==
  IF statOk
    THEN [complexity |-> [num |-> Min(fileSize, ComplexityCap), den |-> ComplexityCap],
          regions    |-> ((4 * Min(fileSize, ComplexityCap)) \div ComplexityCap) + 1,
          fileSize   |-> fileSize]
    ELSE [complexity |-> [num |-> 3, den |-> 10],
          regions    |-> 1,
          fileSize   |-> 0]

(***************************************************************************)
(* calculatePredictionDiversity, in percent                                *)
(***************************************************************************)
calculatePredictionDiversity(predictions) ==
  IF Len(predictions) < 2
    THEN 0
    ELSE Max(0, Min(100, 100 - (predictions[1].confidence - predictions[2].confidence)))

(***************************************************************************)
(* analyzeImageContext                                                     *)
(***************************************************************************)
\* plausible slip: the complexity threshold of the decision criteria (0.5)
multiVegetableIndicatorsComplexity50(predictions, imageAnalysis) ==
  [sufficientSize        |-> imageAnalysis.fileSize > 500 * 1024,
   highComplexity        |-> ComplexityGT(imageAnalysis, 5, 10),
   balancedPredictions   |-> calculatePredictionDiversity(predictions) > 80,
   veryBalanced          |-> /\ Len(predictions) >= 3
                             /\ predictions[1].confidence < 60
                             /\ predictions[2].confidence > 25
                             /\ predictions[3].confidence > 15,
   moderateLowConfidence |-> /\ predictions[1].confidence >= 25
                             /\ predictions[1].confidence < 60,
   allKnownVegetables    |-> \A i \in 1..Len(predictions) :
                                predictions[i].class \in knownVegetables]

\* plausible slip: "not catastrophic" starts at 30
multiVegetableIndicatorsFrom30(predictions, imageAnalysis) ==
  [sufficientSize        |-> imageAnalysis.fileSize > 500 * 1024,
   highComplexity        |-> ComplexityGT(imageAnalysis, 4, 10),
   balancedPredictions   |-> calculatePredictionDiversity(predictions) > 80,
   veryBalanced          |-> /\ Len(predictions) >= 3
                             /\ predictions[1].confidence < 60
                             /\ predictions[2].confidence > 25
                             /\ predictions[3].confidence > 15,
   moderateLowConfidence |-> /\ predictions[1].confidence >= 30
                             /\ predictions[1].confidence < 60,
   allKnownVegetables    |-> \A i \in 1..Len(predictions) :
                                predictions[i].class \in knownVegetables]

multiVegetableIndicators(predictions, imageAnalysis) ==
  [sufficientSize        |-> imageAnalysis.fileSize > 500 * 1024,
   highComplexity        |-> ComplexityGT(imageAnalysis, 4, 10),
   balancedPredictions   |-> calculatePredictionDiversity(predictions) > 80,
   veryBalanced          |-> /\ Len(predictions) >= 3
                             /\ predictions[1].confidence < 60
                             /\ predictions[2].confidence > 25
                             /\ predictions[3].confidence > 15,
   moderateLowConfidence |-> /\ predictions[1].confidence >= 25
                             /\ predictions[1].confidence < 60,
   allKnownVegetables    |-> \A i \in 1..Len(predictions) :
                                predictions[i].class \in knownVegetables]

\* plausible slip: every indicator weighted 2
multiVegetableScoreFlat(ind) ==
    (IF ind.sufficientSize THEN 2 ELSE 0)
  + (IF ind.highComplexity THEN 2 ELSE 0)
  + (IF ind.balancedPredictions THEN 2 ELSE 0)
  + (IF ind.veryBalanced THEN 2 ELSE 0)
  + (IF ind.moderateLowConfidence THEN 2 ELSE 0)
  + (IF ind.allKnownVegetables THEN 2 ELSE 0)

multiVegetableScore(ind) ==
    (IF ind.sufficientSize THEN 2 ELSE 0)
  + (IF ind.highComplexity THEN 2 ELSE 0)
  + (IF ind.balancedPredictions THEN 3 ELSE 0)
  + (IF ind.veryBalanced THEN 3 ELSE 0)
  + (IF ind.moderateLowConfidence THEN 2 ELSE 0)
  + (IF ind.allKnownVegetables THEN 2 ELSE 0)

\* contextAnalysis = null
NoContext ==
  [present |-> FALSE, isLikelyMultiVegetable |-> FALSE, multiVegetableScore |-> 0]

analyzeImageContext(predictions, imageAnalysis) ==
  LET s == multiVegetableScore(multiVegetableIndicators(predictions, imageAnalysis))
  IN  [present |-> TRUE, isLikelyMultiVegetable |-> s >= 6, multiVegetableScore |-> s]

(***************************************************************************)
(* shouldClassifyAsUnknown(predictions, imageAnalysis = null)              *)
(* imageAnalysis = null is the record NoAnalysis.                          *)
(***************************************************************************)
NoAnalysis ==
  [complexity |-> [num |-> 0, den |-> 1], regions |-> 0, fileSize |-> -1]

confidenceGap(predictions) ==
  predictions[1].confidence
    - (IF Len(predictions) >= 2 THEN predictions[2].confidence ELSE 0)

\* plausible slip: the thresholds of the earlier, looser version (gap 20)
unknownCriteriaOld(predictions) ==
  [veryLowConfidence    |-> predictions[1].confidence < 40,
   veryLowConfidenceGap |-> confidenceGap(predictions) < 20,
   extremeDiversity     |-> calculatePredictionDiversity(predictions) > 85,
   noStrongPrediction   |-> predictions[1].confidence < 30]

unknownCriteria(predictions) ==
  [veryLowConfidence    |-> predictions[1].confidence < 40,
   veryLowConfidenceGap |-> confidenceGap(predictions) < 15,
   extremeDiversity     |-> calculatePredictionDiversity(predictions) > 85,
   noStrongPrediction   |-> predictions[1].confidence < 30]

uncertaintyScore(c) ==
    (IF c.veryLowConfidence THEN 1 ELSE 0)
  + (IF c.veryLowConfidenceGap THEN 1 ELSE 0)
  + (IF c.extremeDiversity THEN 1 ELSE 0)
  + (IF c.noStrongPrediction THEN 1 ELSE 0)

\* plausible slip: the looser "two criteria" rule without the confidence gate
isUnknownLoose(predictions) ==
  uncertaintyScore(unknownCriteria(predictions)) >= 2

\* uncertaintyScore >= 3 && topPrediction.confidence < 40
isUnknownStrict(predictions) ==
  /\ uncertaintyScore(unknownCriteria(predictions)) >= 3
  /\ predictions[1].confidence < 40

\* plausible slip: the context is analysed but the strict criteria are
\* applied all the same
shouldClassifyAsUnknownNoShortCut(predictions, imageAnalysis) ==
  [isUnknown           |-> isUnknownStrict(predictions),
   uncertaintyScore    |-> uncertaintyScore(unknownCriteria(predictions)),
   multiVegetableImage |-> FALSE,
   confidence          |-> predictions[1].confidence,
   contextAnalysis     |-> IF imageAnalysis = NoAnalysis THEN NoContext
                           ELSE analyzeImageContext(predictions, imageAnalysis),
   bestGuess           |-> [name |-> predictions[1].class,
                            confidence |-> predictions[1].confidence]]

shouldClassifyAsUnknown(predictions, imageAnalysis) ==
  LET ctx == IF imageAnalysis = NoAnalysis
               THEN NoContext
               ELSE analyzeImageContext(predictions, imageAnalysis)
  IN  IF ctx.isLikelyMultiVegetable
        THEN [isUnknown           |-> FALSE,
              uncertaintyScore    |-> 0,
              multiVegetableImage |-> TRUE,
              confidence          |-> predictions[1].confidence,
              contextAnalysis     |-> ctx,
              bestGuess           |-> [name |-> predictions[1].class,
                                       confidence |-> predictions[1].confidence]]
        ELSE [isUnknown           |-> isUnknownStrict(predictions),
              uncertaintyScore    |-> uncertaintyScore(unknownCriteria(predictions)),
              multiVegetableImage |-> FALSE,
              confidence          |-> predictions[1].confidence,
              contextAnalysis     |-> ctx,
              bestGuess           |-> [name |-> predictions[1].class,
                                       confidence |-> predictions[1].confidence]]

\* the verdict of a call that was not made
NoVerdict ==
  [isUnknown |-> FALSE, uncertaintyScore |-> 0, multiVegetableImage |-> FALSE,
   confidence |-> 0, contextAnalysis |-> NoContext,
   bestGuess |-> [name |-> "", confidence |-> 0]]

(***************************************************************************)
(* simulateQuickScan                                                       *)
(***************************************************************************)
simulateQuickScan(imageAnalysis, predictions) ==
  LET uncertain == ComplexityGT(imageAnalysis, 5, 10) /\ predictions[1].confidence < 70
      count1    == IF uncertain THEN imageAnalysis.regions ELSE 1
      conf      == IF uncertain
                     THEN Max(predictions[1].confidence - 10, 30)
                     ELSE predictions[1].confidence
      count2    == IF ComplexityGT(imageAnalysis, 8, 10) THEN Max(count1, 2) ELSE count1
  IN  [detectedCount |-> Min(count2, 5), confidence |-> conf]

(***************************************************************************)
(* When a heuristic function throws                                        *)
(***************************************************************************)
\* predictions[i - 1] is undefined beyond the end of the array, and reading
\* a property of undefined throws a TypeError
IsUndefined(predictions, i) == i > Len(predictions)

\* topTwo[0].confidence - topTwo[1].confidence, behind the length test
calculatePredictionDiversityThrows(predictions) ==
  Len(predictions) >= 2 /\ (IsUndefined(predictions, 1) \/ IsUndefined(predictions, 2))

\* veryBalanced reads predictions[0..2] behind its length test;
\* moderateLowConfidence reads topPrediction.confidence unguarded
analyzeImageContextThrows(predictions) ==
  \/ calculatePredictionDiversityThrows(predictions)
  \/ Len(predictions) >= 3 /\ (\E i \in 1..3 : IsUndefined(predictions, i))
  \/ IsUndefined(predictions, 1)

\* secondPrediction has a default, topPrediction has none
shouldClassifyAsUnknownThrows(predictions, imageAnalysis) ==
  \/ calculatePredictionDiversityThrows(predictions)
  \/ IsUndefined(predictions, 1)
  \/ imageAnalysis # NoAnalysis /\ analyzeImageContextThrows(predictions)

\* let confidence = predictions[0].confidence
simulateQuickScanThrows(predictions) == IsUndefined(predictions, 1)

\* step 3 reads dominantGlobal.confidence of globalResult[0]
aggregateResultsThrows(globalResult) == IsUndefined(globalResult, 1)

(***************************************************************************)
(* determineDetectionMode                                                  *)
(***************************************************************************)
NoCriteria ==
  [highComplexity |-> FALSE, multipleRegions |-> FALSE, moderateConfidence |-> FALSE,
   highDiversity |-> FALSE, multipleVegetablesDetected |-> FALSE,
   multiScanConfident |-> FALSE, largeFile |-> FALSE]

modeCriteria(imageAnalysis, quickPrediction) ==
  LET multiScanResult == simulateQuickScan(imageAnalysis, quickPrediction)
  IN  [highComplexity             |-> ComplexityGT(imageAnalysis, 5, 10),
       multipleRegions            |-> imageAnalysis.regions > 2,
       moderateConfidence         |-> /\ quickPrediction[1].confidence >= 30
                                      /\ quickPrediction[1].confidence < 70,
       highDiversity              |-> calculatePredictionDiversity(quickPrediction) > 60,
       multipleVegetablesDetected |-> multiScanResult.detectedCount > 1,
       multiScanConfident         |-> multiScanResult.confidence > 40,
       largeFile                  |-> imageAnalysis.fileSize > 300 * 1024]

\* the weights object, summed over the criteria that hold
multipleScore(criteria) ==
    (IF criteria.highComplexity THEN 2 ELSE 0)
  + (IF criteria.multipleRegions THEN 2 ELSE 0)
  + (IF criteria.moderateConfidence THEN 2 ELSE 0)
  + (IF criteria.highDiversity THEN 3 ELSE 0)
  + (IF criteria.multipleVegetablesDetected THEN 3 ELSE 0)
  + (IF criteria.multiScanConfident THEN 1 ELSE 0)
  + (IF criteria.largeFile THEN 2 ELSE 0)

\* Object.values(weights).reduce((a, b) => a + b, 0)
weightsTotal == 2 + 2 + 2 + 3 + 3 + 1 + 2

\* plausible slip: a failed analysis answered with the weighted default of
\* the multiple path
modeFallbackMultiple(imageAnalysis) ==
  [mode |-> "multiple", score |-> 8, maxScore |-> 15, branch |-> "fallback",
   fallback |-> TRUE, criteria |-> NoCriteria, analysis |-> imageAnalysis,
   contextAnalysis |-> NoContext, unknownAnalysis |-> NoVerdict]

\* the catch block of determineDetectionMode
modeFallback(imageAnalysis) ==
  [mode |-> "single", score |-> 0, maxScore |-> 15, branch |-> "fallback",
   fallback |-> TRUE, criteria |-> NoCriteria, analysis |-> imageAnalysis,
   contextAnalysis |-> NoContext, unknownAnalysis |-> NoVerdict]

\* plausible slip: a threshold of half the maximum
modeScoredHalf(imageAnalysis, quickPrediction, unknownAnalysis) ==
  LET criteria == modeCriteria(imageAnalysis, quickPrediction)
      score    == multipleScore(criteria)
  IN  [mode |-> IF score * 100 >= weightsTotal * 50 THEN "multiple" ELSE "single",
       score |-> score, maxScore |-> weightsTotal, branch |-> "scored",
       fallback |-> FALSE, criteria |-> criteria, analysis |-> imageAnalysis,
       contextAnalysis |-> NoContext, unknownAnalysis |-> unknownAnalysis]

\* the weighted decision of steps 3 to 6
modeScored(imageAnalysis, quickPrediction, unknownAnalysis) ==
  LET criteria == modeCriteria(imageAnalysis, quickPrediction)
      score    == multipleScore(criteria)
  IN  [mode |-> IF score * 100 >= weightsTotal * 35 THEN "multiple" ELSE "single",
       score |-> score, maxScore |-> weightsTotal, branch |-> "scored",
       fallback |-> FALSE, criteria |-> criteria, analysis |-> imageAnalysis,
       contextAnalysis |-> NoContext, unknownAnalysis |-> unknownAnalysis]

\* plausible slip: the multi-vegetable override is tested after the weighted
\* decision instead of before it
modeAfterPredictNoOverride(imageAnalysis, quickPrediction) ==
  LET unknownAnalysis == shouldClassifyAsUnknown(quickPrediction, imageAnalysis)
  IN  IF unknownAnalysis.isUnknown
        THEN [mode |-> "single", score |-> 0, maxScore |-> 10, branch |-> "forcedSingle",
              fallback |-> FALSE, criteria |-> NoCriteria, analysis |-> imageAnalysis,
              contextAnalysis |-> NoContext, unknownAnalysis |-> unknownAnalysis]
        ELSE modeScored(imageAnalysis, quickPrediction, unknownAnalysis)

\* determineDetectionMode once classifier.predict has returned quickPrediction
modeAfterPredict(imageAnalysis, quickPrediction) ==
  LET unknownAnalysis == shouldClassifyAsUnknown(quickPrediction, imageAnalysis)
  IN  IF unknownAnalysis.contextAnalysis.isLikelyMultiVegetable
        THEN [mode |-> "multiple", score |-> 8, maxScore |-> 10,
              branch |-> "forcedMultiple", fallback |-> FALSE,
              criteria |-> NoCriteria, analysis |-> imageAnalysis,
              contextAnalysis |-> unknownAnalysis.contextAnalysis,
              unknownAnalysis |-> unknownAnalysis]
        ELSE IF unknownAnalysis.isUnknown
        THEN [mode |-> "single", score |-> 0, maxScore |-> 10, branch |-> "forcedSingle",
              fallback |-> FALSE, criteria |-> NoCriteria, analysis |-> imageAnalysis,
              contextAnalysis |-> NoContext, unknownAnalysis |-> unknownAnalysis]
        ELSE modeScored(imageAnalysis, quickPrediction, unknownAnalysis)

\* steps 2.5 to 4 after the quick prediction: shouldClassifyAsUnknown,
\* simulateQuickScan and the criteria read quickPrediction[0]
modeStepsThrow(quickPrediction, imageAnalysis) ==
  \/ shouldClassifyAsUnknownThrows(quickPrediction, imageAnalysis)
  \/ simulateQuickScanThrows(quickPrediction)
  \/ IsUndefined(quickPrediction, 1)
  \/ calculatePredictionDiversityThrows(quickPrediction)

\* predictOk = FALSE: classifier.predict threw
determineDetectionMode(fileSize, statOk, predictOk, quickPrediction) ==
  LET imageAnalysis == analyzeImageComplexity(fileSize, statOk)
  IN  IF predictOk /\ ~modeStepsThrow(quickPrediction, imageAnalysis)
        THEN modeAfterPredict(imageAnalysis, quickPrediction)
        ELSE modeFallback(imageAnalysis)

(***************************************************************************)
(* MultiVegetableDetector: zone filter, recovery pass and aggregation      *)
(***************************************************************************)
\* gridSize of the MultiVegetableDetector constructor
GridSize == 3

\* zone: 'global_recovery' is kept as zone number 0; grid zones are 1..9
RecoveryZone == 0

\* the knownVegetables table of the zone filter, 50 for any other class
zoneThreshold(class) ==
  CASE class = "Tomate" -> 45
    [] class = "Carotte" -> 35
    [] class = "Pomme de terre" -> 50
    [] OTHER -> 50

\* plausible slip: a confidence equal to the threshold passes
isAtLeastThreshold(pred) == pred.confidence >= zoneThreshold(pred.class)

isAboveThreshold(pred) == pred.confidence > zoneThreshold(pred.class)

\* zoneResult.filter(...)
reliablePredictions(zoneResult) == SelectSeq(zoneResult, isAboveThreshold)

\* the entry pushed for zone i (loop index i - 1) with a non-empty filtered list
zoneEntry(i, reliable) ==
  [zone |-> i, vegetables |-> reliable, topVegetable |-> reliable[1]]

\* plausible slip: unshift in place of push, the latest zone comes first
unshiftZone(zoneResults, i, zoneResult) ==
  IF Len(reliablePredictions(zoneResult)) > 0
    THEN <<zoneEntry(i, reliablePredictions(zoneResult))>> \o zoneResults
    ELSE zoneResults

\* if (reliablePredictions.length > 0) zoneResults.push(...)
pushZone(zoneResults, i, zoneResult) ==
  IF Len(reliablePredictions(zoneResult)) > 0
    THEN Append(zoneResults, zoneEntry(i, reliablePredictions(zoneResult)))
    ELSE zoneResults

\* plausible slip: a recovered vegetable lifted to a confident 50 %
recoveredConfidenceHigh(confidence) == Max(confidence, 50)

\* plausible slip: the recovered vegetable keeps its global confidence
recoveredConfidenceAsIs(confidence) == confidence

\* Math.max(prediction.confidence, 30)
recoveredConfidence(confidence) == Max(confidence, 30)

detectedTypes(zoneResults) ==
  {zoneResults[i].topVegetable.class : i \in 1..Len(zoneResults)}

isMissedVegetableAbove20(prediction, types) ==
  /\ prediction.class \in knownVegetables
  /\ prediction.class \notin types
  /\ prediction.confidence > 20

isMissedVegetable(prediction, types) ==
  /\ prediction.class \in knownVegetables
  /\ prediction.class \notin types
  /\ prediction.confidence > 25

recoveryEntry(prediction) ==
  [zone |-> RecoveryZone,
   vegetables |-> <<prediction>>,
   topVegetable |-> Pred(prediction.class, recoveredConfidence(prediction.confidence))]

RECURSIVE recoveryEntries(_, _)
recoveryEntries(globalResult, types) ==
  IF globalResult = <<>>
    THEN <<>>
    ELSE (IF isMissedVegetable(Head(globalResult), types)
            THEN <<recoveryEntry(Head(globalResult))>>
            ELSE <<>>)
         \o recoveryEntries(Tail(globalResult), types)

\* detectedTypes is computed once, before the forEach that pushes
includeWeakButKnownVegetables(globalResult, zoneResults) ==
  zoneResults \o recoveryEntries(globalResult, detectedTypes(zoneResults))

\* `zone_${zone.zone}`
zoneLabel(zone) ==
  IF zone = RecoveryZone
    THEN "zone_global_recovery"
    ELSE <<"zone_1", "zone_2", "zone_3", "zone_4", "zone_5",
           "zone_6", "zone_7", "zone_8", "zone_9">>[zone]

\* The Map `vegetables`, kept as the sequence of its values in insertion
\* order (Array.from(vegetables.values())); the key of a value is its type.
MapHas(vegetables, key) == \E i \in 1..Len(vegetables) : vegetables[i].type = key

MapIndex(vegetables, key) ==
  CHOOSE i \in 1..Len(vegetables) : vegetables[i].type = key

MapGet(vegetables, key) == vegetables[MapIndex(vegetables, key)]

SeqIncludes(seq, x) == \E i \in 1..Len(seq) : seq[i] = x

\* plausible slip: every zone pushes its own entry, repeats are not merged
addZoneNoMerge(vegetables, zone) ==
  Append(vegetables,
         [type |-> zone.topVegetable.class,
          confidence |-> zone.topVegetable.confidence,
          positions |-> <<zoneLabel(zone.zone)>>,
          detectionMethod |-> IF zone.zone = RecoveryZone THEN "global-recovery" ELSE "zone"])

\* step 1, the body of zoneResults.forEach
addZone(vegetables, zone) ==
  LET topVeg == zone.topVegetable
  IN  IF MapHas(vegetables, topVeg.class)
        THEN LET existing == MapGet(vegetables, topVeg.class)
             IN  [vegetables EXCEPT ![MapIndex(vegetables, topVeg.class)] =
                    [existing EXCEPT
                       !.positions = Append(existing.positions, zoneLabel(zone.zone)),
                       !.confidence = Max(existing.confidence, topVeg.confidence),
                       !.detectionMethod = "multi-zone"]]
        ELSE Append(vegetables,
                    [type |-> topVeg.class,
                     confidence |-> topVeg.confidence,
                     positions |-> <<zoneLabel(zone.zone)>>,
                     detectionMethod |->
                       IF zone.zone = RecoveryZone THEN "global-recovery" ELSE "zone"])

RECURSIVE aggregateZones(_, _)
aggregateZones(vegetables, zoneResults) ==
  IF zoneResults = <<>>
    THEN vegetables
    ELSE aggregateZones(addZone(vegetables, Head(zoneResults)), Tail(zoneResults))

\* plausible slip: the global confidence replaces the zone confidence
\* without the "is it higher" test
addGlobalOverwrite(vegetables, prediction) ==
  IF prediction.class \notin knownVegetables
    THEN vegetables
    ELSE IF ~MapHas(vegetables, prediction.class)
    THEN IF prediction.confidence > 20
           THEN Append(vegetables,
                       [type |-> prediction.class,
                        confidence |-> Max(prediction.confidence, 30),
                        positions |-> <<"global">>,
                        detectionMethod |-> "global-weak"])
           ELSE vegetables
    ELSE LET existing == MapGet(vegetables, prediction.class)
         IN  [vegetables EXCEPT ![MapIndex(vegetables, prediction.class)] =
                [existing EXCEPT
                   !.confidence = prediction.confidence,
                   !.positions = IF SeqIncludes(existing.positions, "global")
                                   THEN existing.positions
                                   ELSE Append(existing.positions, "global"),
                   !.detectionMethod = "enhanced"]]

\* step 2, the body of globalResult.forEach
addGlobal(vegetables, prediction) ==
  IF prediction.class \notin knownVegetables
    THEN vegetables
    ELSE IF ~MapHas(vegetables, prediction.class)
    THEN IF prediction.confidence > 20
           THEN Append(vegetables,
                       [type |-> prediction.class,
                        confidence |-> Max(prediction.confidence, 30),
                        positions |-> <<"global">>,
                        detectionMethod |-> "global-weak"])
           ELSE vegetables
    ELSE LET existing == MapGet(vegetables, prediction.class)
         IN  IF prediction.confidence > existing.confidence
               THEN [vegetables EXCEPT ![MapIndex(vegetables, prediction.class)] =
                       [existing EXCEPT
                          !.confidence = prediction.confidence,
                          !.positions = IF SeqIncludes(existing.positions, "global")
                                          THEN existing.positions
                                          ELSE Append(existing.positions, "global"),
                          !.detectionMethod = "enhanced"]]
               ELSE vegetables

RECURSIVE aggregateGlobal(_, _)
aggregateGlobal(vegetables, globalResult) ==
  IF globalResult = <<>>
    THEN vegetables
    ELSE aggregateGlobal(addGlobal(vegetables, Head(globalResult)), Tail(globalResult))

\* step 3
addDominant(vegetables, dominantGlobal) ==
  IF dominantGlobal.confidence > 60 /\ ~MapHas(vegetables, dominantGlobal.class)
    THEN Append(vegetables,
                [type |-> dominantGlobal.class,
                 confidence |-> dominantGlobal.confidence,
                 positions |-> <<"global-dominant">>,
                 detectionMethod |-> "global-dominant"])
    ELSE vegetables

\* detectionMethod.includes('zone')
methodIncludesZone(detectionMethod) == detectionMethod \in {"zone", "multi-zone"}

\* the comparator of the final sort: negative, zero or positive
compareVegetables(a, b) ==
  IF methodIncludesZone(a.detectionMethod) /\ ~methodIncludesZone(b.detectionMethod)
    THEN -1
    ELSE IF ~methodIncludesZone(a.detectionMethod) /\ methodIncludesZone(b.detectionMethod)
    THEN 1
    ELSE b.confidence - a.confidence

\* Array.prototype.sort is stable: x goes behind everything not after it
RECURSIVE sortedInsert(_, _)
sortedInsert(sorted, x) ==
  IF sorted = <<>>
    THEN <<x>>
    ELSE IF compareVegetables(Head(sorted), x) <= 0
    THEN <<Head(sorted)>> \o sortedInsert(Tail(sorted), x)
    ELSE <<x>> \o sorted

RECURSIVE sortVegetables(_, _)
sortVegetables(sorted, rest) ==
  IF rest = <<>>
    THEN sorted
    ELSE sortVegetables(sortedInsert(sorted, Head(rest)), Tail(rest))

aggregateResults(globalResult, zoneResults) ==
  sortVegetables(<<>>,
    addDominant(aggregateGlobal(aggregateZones(<<>>, zoneResults), globalResult),
                globalResult[1]))

(***************************************************************************)
(* Results of the two detection paths                                      *)
(***************************************************************************)
\* class.toLowerCase().replace(' ', '_'): only the first blank is replaced
vegetableName(class) ==
  CASE class = "Tomate" -> "tomate"
    [] class = "Carotte" -> "carotte"
    [] class = "Pomme de terre" -> "pomme_de terre"
    [] OTHER -> "autre"

\* a JavaScript boolean, so that a missing property can be told apart
JsBool(b) == IF b THEN "true" ELSE "false"

NoVegetable ==
  [name |-> "", confidence |-> 0, isReliable |-> FALSE, isUnknown |-> "undefined"]

NoFallback ==
  [present |-> FALSE, originalAttempt |-> "", fallbackReason |-> <<>>, graceful |-> FALSE]

NoResponse ==
  [status |-> 0, detectionType |-> "none", vegetable |-> NoVegetable,
   hasUnknownAnalysis |-> FALSE, dominantVegetable |-> NoVegetable,
   detectedVegetables |-> <<>>, fallback |-> NoFallback, error |-> <<>>]

\* VegetableClassifier defines classify as well as predict
ClassifierHasClassify == TRUE

\* VegetableClassifier.classify: the result carries no isUnknown and no
\* unknownAnalysis
classifyResult(predictions) ==
  [vegetable |-> [name |-> vegetableName(predictions[1].class),
                  confidence |-> predictions[1].confidence,
                  isReliable |-> predictions[1].confidence >= 70,
                  isUnknown |-> "undefined"],
   hasUnknownAnalysis |-> FALSE]

\* the predict branch of performSingleDetection
predictBranchResult(predictions, imageAnalysis) ==
  LET unknownAnalysis == shouldClassifyAsUnknown(predictions, imageAnalysis)
  IN  [vegetable |->
         IF unknownAnalysis.isUnknown
           THEN [name |-> "unknown_vegetable", confidence |-> 0,
                 isReliable |-> FALSE, isUnknown |-> "true"]
           ELSE [name |-> vegetableName(predictions[1].class),
                 confidence |-> predictions[1].confidence,
                 isReliable |-> predictions[1].confidence >= 70,
                 isUnknown |-> "false"],
       hasUnknownAnalysis |-> TRUE]

\* performSingleDetection up to the database record: which branch runs is
\* decided by typeof classifier.classify === 'function'
singleResult(hasClassify, predictions, imageAnalysis) ==
  IF hasClassify
    THEN classifyResult(predictions)
    ELSE predictBranchResult(predictions, imageAnalysis)

\* the three candidates synthesized for one detected vegetable
mockPredictions(veg) ==
  <<Pred(veg.type, veg.confidence),
    Pred("Tomate", Max(0, veg.confidence - 20)),
    Pred("Carotte", Max(0, veg.confidence - 30))>>

enrichVegetable(veg) ==
  LET unknownAnalysis == shouldClassifyAsUnknown(mockPredictions(veg), NoAnalysis)
  IN  [name |-> IF unknownAnalysis.isUnknown
                  THEN "unknown_vegetable" ELSE vegetableName(veg.type),
       confidence |-> IF unknownAnalysis.isUnknown THEN 0 ELSE veg.confidence,
       positions |-> veg.positions,
       detectionMethod |-> veg.detectionMethod,
       isUnknown |-> JsBool(unknownAnalysis.isUnknown)]

enrichedVegetables(detected) ==
  [k \in 1..Len(detected) |-> enrichVegetable(detected[k])]

\* the dominantVegetable of the multiple response: the global predictions
\* are judged without image signals
dominantVegetable(allPredictions) ==
  LET dominantUnknownAnalysis == shouldClassifyAsUnknown(allPredictions, NoAnalysis)
  IN  IF dominantUnknownAnalysis.isUnknown
        THEN [name |-> "unknown_vegetable", confidence |-> 0,
              isReliable |-> FALSE, isUnknown |-> "true"]
        ELSE [name |-> vegetableName(allPredictions[1].class),
              confidence |-> allPredictions[1].confidence,
              isReliable |-> allPredictions[1].confidence >= 70,
              isUnknown |-> "false"]

(***************************************************************************)
(* The request handler's state before and outside a request                *)
(***************************************************************************)
\* the frame of a detectMultipleVegetables call: gridZones is the zones
\* array local to createImageGrid, zones the one of detectMultipleVegetables
DetIdle ==
  [globalResult |-> <<>>, gridZones |-> <<>>, cell |-> 0, cellFailures |-> 0,
   zones |-> <<>>, zoneIdx |-> 0, zoneFailures |-> 0, zoneResults |-> <<>>,
   enhancedZoneResults |-> <<>>, detected |-> <<>>, outcome |-> "none",
   error |-> <<>>, multipleError |-> <<>>]

FlowIdle ==
  /\ pc = "idle"
  /\ image = [fileSize |-> 0, width |-> 0, height |-> 0, pred |-> <<>>, scene |-> <<>>]
  /\ faults = 0
  /\ classifier = "null"
  /\ multiDetector = "null"
  /\ detectionAnalysis = modeFallback(NoAnalysis)
  /\ det = DetIdle
  /\ tempDir = FALSE
  /\ tempFiles = {}
  /\ created = {}
  /\ deleted = <<>>
  /\ response = NoResponse

\* the two harness variables outside their specifications
CallIdle == [pc |-> "idle"]
GridIdle == [pc |-> "idle"]
ServiceIdle == [pc |-> "idle"]
TilingIdle == [pc |-> "idle"]
ConcIdle == service = ServiceIdle /\ tiling = TilingIdle
HarnessIdle == call = CallIdle /\ grid = GridIdle /\ ConcIdle

(***************************************************************************)
(* Input domains                                                           *)
(***************************************************************************)
\* MODEL_CONFIG.numClasses: the classifier returns one entry per class
NumClasses == 3

\* confidences on and around every threshold of the heuristics
ConfValues ==
  {0, 14, 15, 16, 18, 24, 25, 26, 29, 30, 31, 38, 39, 40, 41, 45, 55, 59, 60, 61, 70,
   85, 100}

\* the categories by rank; "Autre" stands for a category outside the known set
ClassOrders ==
  {<<"Tomate", "Carotte", "Pomme de terre">>,
   <<"Pomme de terre", "Tomate", "Carotte">>,
   <<"Autre", "Tomate", "Carotte">>,
   <<"Carotte", "Autre", "Tomate">>}

\* every non-empty prediction list of at most NumClasses entries, sorted
PredictionLists ==
  UNION { { [i \in 1..n |-> Pred(o[i], cs[i])] :
              cs \in {c \in [1..n -> ConfValues] : \A i \in 1..(n - 1) : c[i] >= c[i + 1]},
              o \in ClassOrders }
          : n \in 1..NumClasses }

\* file sizes on both sides of 300 KiB, 500 KiB and complexity 0.4, 0.5, 0.8, 1
FileSizes ==
  {1000, 307200, 307201, 512000, 512001, 838860, 838861,
   1048576, 1048577, 1677721, 1677722, 2097152, 5000000}

ImageAnalyses ==
  {analyzeImageComplexity(fs, TRUE) : fs \in FileSizes}
    \cup {analyzeImageComplexity(0, FALSE)}

(***************************************************************************)
(* SpecUnknown: shouldClassifyAsUnknown applied to one input               *)
(***************************************************************************)
HeurIdle ==
  [predictions |-> <<>>, imageAnalysis |-> NoAnalysis, verdict |-> NoVerdict,
   done |-> TRUE]
ModeIdle == [pc |-> "idle"]
AggIdle == [pc |-> "idle"]

InitUnknown ==
  /\ heur \in [predictions : PredictionLists,
               imageAnalysis : ImageAnalyses \cup {NoAnalysis},
               verdict : {NoVerdict},
               done : {FALSE}]
  /\ modeSel = ModeIdle
  /\ agg = AggIdle
  /\ FlowIdle
  /\ HarnessIdle

EvaluateUnknown ==
  /\ ~heur.done
  /\ heur' = [heur EXCEPT
                !.verdict = shouldClassifyAsUnknown(heur.predictions, heur.imageAnalysis),
                !.done = TRUE]
  /\ UNCHANGED <<modeSel, agg>>
  /\ UNCHANGED flowVars
  /\ UNCHANGED harnessVars

NextUnknown == EvaluateUnknown

SpecUnknown == InitUnknown /\ [][NextUnknown]_vars

\* C1: whenever shouldClassifyAsUnknown answers isUnknown = true, with or
\* without image signals, the top prediction's confidence is below 40.
C1_UnknownImpliesTopBelow40 ==
  (heur.done /\ heur.predictions # <<>> /\ heur.verdict.isUnknown)
    => heur.predictions[1].confidence < 40

\* an unknown verdict given although image signals were supplied
C1_Witness ==
  /\ heur.done
  /\ heur.predictions # <<>>
  /\ heur.imageAnalysis # NoAnalysis
  /\ heur.verdict.isUnknown

\* the image signals were supplied and the context analysis of the input
\* says multi-vegetable
HeurMultiContext ==
  /\ heur.imageAnalysis # NoAnalysis
  /\ analyzeImageContext(heur.predictions, heur.imageAnalysis).isLikelyMultiVegetable

HeurTop == heur.predictions[1]

\* C14: when analyzeImageContext reports a multi-vegetable image,
\* shouldClassifyAsUnknown answers not unknown, uncertainty 0, with the
\* context analysis attached and the top prediction as best guess, the
\* strict criteria being replaced by the multiVegetableImage mark
C14_MultiContextShortCircuits ==
  (heur.done /\ heur.predictions # <<>> /\ HeurMultiContext) =>
    /\ ~heur.verdict.isUnknown
    /\ heur.verdict.uncertaintyScore = 0
    /\ heur.verdict.multiVegetableImage
    /\ heur.verdict.contextAnalysis =
         analyzeImageContext(heur.predictions, heur.imageAnalysis)
    /\ heur.verdict.bestGuess =
         [name |-> HeurTop.class, confidence |-> HeurTop.confidence]

\* the strict criteria alone would have said unknown
C14_Witness ==
  /\ heur.done
  /\ heur.predictions # <<>>
  /\ HeurMultiContext
  /\ isUnknownStrict(heur.predictions)
  /\ ~heur.verdict.isUnknown
  /\ heur.verdict.uncertaintyScore = 0

\* the four criteria as the claim words them, counted
HeurSecond == IF Len(heur.predictions) >= 2 THEN heur.predictions[2].confidence ELSE 0
HeurDiversity ==
  IF Len(heur.predictions) < 2 THEN 0
  ELSE Max(0, Min(100, 100 - (HeurTop.confidence - HeurSecond)))
HeurCriteriaMet ==
    (IF HeurTop.confidence < 40 THEN 1 ELSE 0)
  + (IF HeurTop.confidence - HeurSecond < 15 THEN 1 ELSE 0)
  + (IF HeurDiversity > 85 THEN 1 ELSE 0)
  + (IF HeurTop.confidence < 30 THEN 1 ELSE 0)

ExampleUnknown == <<Pred("Tomate", 38), Pred("Carotte", 25), Pred("Pomme de terre", 18)>>
ExampleKnown == <<Pred("Tomate", 85), Pred("Carotte", 10), Pred("Pomme de terre", 5)>>

\* C15: without a multi-vegetable context, isUnknown is true exactly when at
\* least 3 of the 4 criteria hold and the top confidence is below 40; the
\* uncertainty score is the number of criteria met and the best guess is
\* the top prediction; the two examples of the claim come out as stated
C15_UnknownIffThreeCriteria ==
  /\ (heur.done /\ heur.predictions # <<>> /\ ~HeurMultiContext) =>
       /\ heur.verdict.isUnknown <=> (HeurCriteriaMet >= 3 /\ HeurTop.confidence < 40)
       /\ heur.verdict.uncertaintyScore = HeurCriteriaMet
       /\ heur.verdict.uncertaintyScore \in 0..4
       /\ heur.verdict.bestGuess =
            [name |-> HeurTop.class, confidence |-> HeurTop.confidence]
  /\ (heur.done /\ heur.predictions = ExampleUnknown /\ heur.imageAnalysis = NoAnalysis) =>
       /\ heur.verdict.isUnknown
       /\ heur.verdict.bestGuess = [name |-> "Tomate", confidence |-> 38]
  /\ (heur.done /\ heur.predictions = ExampleKnown) => ~heur.verdict.isUnknown

\* the first example of the claim
C15_Witness ==
  /\ heur.done
  /\ heur.predictions = ExampleUnknown
  /\ heur.imageAnalysis = NoAnalysis
  /\ heur.verdict.isUnknown
  /\ heur.verdict.uncertaintyScore = 3

\* the six indicators as the claim words them, weighted
HeurContextScore ==
    (IF heur.imageAnalysis.fileSize > 500 * 1024 THEN 2 ELSE 0)
  + (IF heur.imageAnalysis.complexity.num * 10 > 4 * heur.imageAnalysis.complexity.den
       THEN 2 ELSE 0)
  + (IF HeurDiversity > 80 THEN 3 ELSE 0)
  + (IF /\ Len(heur.predictions) >= 3
        /\ heur.predictions[1].confidence < 60
        /\ heur.predictions[2].confidence > 25
        /\ heur.predictions[3].confidence > 15 THEN 3 ELSE 0)
  + (IF HeurTop.confidence >= 25 /\ HeurTop.confidence < 60 THEN 2 ELSE 0)
  + (IF \A i \in 1..Len(heur.predictions) :
          heur.predictions[i].class \in {"Tomate", "Carotte", "Pomme de terre"}
       THEN 2 ELSE 0)

\* C16: the score of analyzeImageContext is the sum of the weights
\* 2, 2, 3, 3, 2, 2 of the indicators that hold, lies in 0..14, and
\* isLikelyMultiVegetable is true exactly from 6 on
C16_ContextScoreIsWeightedSum ==
  (heur.done /\ heur.predictions # <<>> /\ heur.imageAnalysis # NoAnalysis) =>
    /\ heur.verdict.contextAnalysis.present
    /\ heur.verdict.contextAnalysis.multiVegetableScore = HeurContextScore
    /\ heur.verdict.contextAnalysis.multiVegetableScore \in 0..14
    /\ heur.verdict.contextAnalysis.isLikelyMultiVegetable <=> HeurContextScore >= 6

\* the score sits on the threshold: a large, complex image of known
\* vegetables whose predictions are not balanced
C16_Witness ==
  /\ heur.done
  /\ heur.predictions # <<>>
  /\ heur.imageAnalysis # NoAnalysis
  /\ heur.verdict.contextAnalysis.multiVegetableScore = 6
  /\ heur.verdict.contextAnalysis.isLikelyMultiVegetable
  /\ HeurDiversity <= 80
  /\ heur.predictions[1].confidence >= 60

HeurAllKnown ==
  \A i \in 1..Len(heur.predictions) : heur.predictions[i].class \in knownVegetables

\* C25: with image signals, a list of known categories whose top
\* confidence is at least 25 is never classified as unknown, and
\* determineDetectionMode does not take its forced-single branch on it
C25_KnownFrom25NeverUnknown ==
  (heur.done /\ heur.imageAnalysis # NoAnalysis /\ HeurAllKnown
     /\ HeurTop.confidence >= 25) =>
    /\ ~heur.verdict.isUnknown
    /\ modeAfterPredict(heur.imageAnalysis, heur.predictions).branch # "forcedSingle"

\* all four criteria hold on a small file, and the context analysis alone
\* keeps the list from being unknown
C25_Witness ==
  /\ heur.done
  /\ heur.imageAnalysis # NoAnalysis
  /\ heur.imageAnalysis.fileSize <= 500 * 1024
  /\ HeurAllKnown
  /\ HeurTop.confidence \in 25..29
  /\ HeurCriteriaMet = 4
  /\ ~heur.verdict.isUnknown
  /\ heur.verdict.multiVegetableImage

(***************************************************************************)
(* SpecMode: one call of determineDetectionMode.  The quick prediction is  *)
(* what VegetableClassifier.predict returns: one entry per class of        *)
(* classNames, sorted by descending confidence.                            *)
(***************************************************************************)
KnownOrders == {o \in ClassOrders : \A i \in 1..NumClasses : o[i] \in knownVegetables}

ClassifierOutputs ==
  {p \in PredictionLists :
     Len(p) = NumClasses /\ \E o \in KnownOrders : \A i \in 1..NumClasses : p[i].class = o[i]}

\* what a classifier breaking its contract could answer
MalformedOutputs == {<<>>}

InitMode ==
  /\ modeSel \in [pc : {"start"},
                  fileSize : FileSizes,
                  quickPrediction : ClassifierOutputs \cup MalformedOutputs,
                  statOk : {TRUE},
                  predictOk : {TRUE},
                  decision : {modeFallback(NoAnalysis)}]
  /\ heur = HeurIdle
  /\ agg = AggIdle
  /\ FlowIdle
  /\ HarnessIdle

DetermineDetectionMode ==
  /\ modeSel.pc = "start"
  /\ \E statOk \in BOOLEAN, predictOk \in BOOLEAN :
       modeSel' = [modeSel EXCEPT
                     !.pc = "done",
                     !.statOk = statOk,
                     !.predictOk = predictOk,
                     !.decision = determineDetectionMode(modeSel.fileSize, statOk,
                                                         predictOk, modeSel.quickPrediction)]
  /\ UNCHANGED <<heur, agg>>
  /\ UNCHANGED flowVars
  /\ UNCHANGED harnessVars

NextMode == DetermineDetectionMode

SpecMode == InitMode /\ [][NextMode]_vars

\* the context analysis determineDetectionMode computes for its inputs
ModeContext ==
  IF analyzeImageContextThrows(modeSel.quickPrediction) THEN NoContext
  ELSE analyzeImageContext(modeSel.quickPrediction,
                           analyzeImageComplexity(modeSel.fileSize, modeSel.statOk))

\* C2: when the context analysis computed inside determineDetectionMode
\* reports isLikelyMultiVegetable, the decision is mode 'multiple' with
\* score 8 and maxScore 10, never 'single'.
C2_MultiContextForcesMultiple ==
  (modeSel.pc = "done" /\ modeSel.predictOk /\ ModeContext.isLikelyMultiVegetable)
    => /\ modeSel.decision.mode = "multiple"
       /\ modeSel.decision.mode # "single"
       /\ modeSel.decision.score = 8
       /\ modeSel.decision.maxScore = 10

\* the override decides: the weighted criteria alone would have said single
C2_Witness ==
  /\ modeSel.pc = "done"
  /\ modeSel.predictOk
  /\ ModeContext.isLikelyMultiVegetable
  /\ modeSel.decision.mode = "multiple"
  /\ multipleScore(modeCriteria(modeSel.decision.analysis, modeSel.quickPrediction)) < 6

\* an exception was raised inside determineDetectionMode: the quick
\* prediction threw, or a step after it did
ModeRaised ==
  \/ ~modeSel.predictOk
  \/ modeStepsThrow(modeSel.quickPrediction,
                    analyzeImageComplexity(modeSel.fileSize, modeSel.statOk))

\* C13: determineDetectionMode always returns a decision, and when the quick
\* prediction or a later step raised an exception the decision is mode
\* single, score 0, fallback true; no other decision carries fallback
C13_ModeNeverThrows ==
  modeSel.pc = "done" =>
    /\ modeSel.decision.mode \in {"single", "multiple"}
    /\ ModeRaised => /\ modeSel.decision.mode = "single"
                     /\ modeSel.decision.score = 0
                     /\ modeSel.decision.fallback
    /\ modeSel.decision.fallback => ModeRaised

\* the quick prediction threw on an image that would otherwise have gone to
\* the multiple path, and the decision is the fallback
C13_Witness ==
  /\ modeSel.pc = "done"
  /\ ~modeSel.predictOk
  /\ modeSel.quickPrediction # <<>>
  /\ determineDetectionMode(modeSel.fileSize, modeSel.statOk, TRUE,
                            modeSel.quickPrediction).mode = "multiple"
  /\ modeSel.decision.mode = "single"
  /\ modeSel.decision.score = 0
  /\ modeSel.decision.fallback

\* determineDetectionMode reached the weighted criteria: nothing raised, no
\* multi-vegetable context, no unknown verdict
ModeNoOverride ==
  /\ ~ModeRaised
  /\ ~ModeContext.isLikelyMultiVegetable
  /\ ~shouldClassifyAsUnknown(modeSel.quickPrediction,
         analyzeImageComplexity(modeSel.fileSize, modeSel.statOk)).isUnknown

\* the weights 2, 2, 2, 3, 3, 1, 2 over the criteria of the decision
ModeWeightedSum ==
  LET c == modeSel.decision.criteria
  IN    (IF c.highComplexity THEN 2 ELSE 0)
      + (IF c.multipleRegions THEN 2 ELSE 0)
      + (IF c.moderateConfidence THEN 2 ELSE 0)
      + (IF c.highDiversity THEN 3 ELSE 0)
      + (IF c.multipleVegetablesDetected THEN 3 ELSE 0)
      + (IF c.multiScanConfident THEN 1 ELSE 0)
      + (IF c.largeFile THEN 2 ELSE 0)

\* C17: when no override applies, the score of the decision is the
\* weighted sum of the seven criteria, maxScore is 15, and the mode is
\* multiple exactly when the score is at least 0.35 * 15, that is at least 6
C17_ScoredModeThreshold ==
  (modeSel.pc = "done" /\ ModeNoOverride) =>
    /\ modeSel.decision.branch = "scored"
    /\ modeSel.decision.criteria =
         modeCriteria(analyzeImageComplexity(modeSel.fileSize, modeSel.statOk),
                      modeSel.quickPrediction)
    /\ modeSel.decision.score = ModeWeightedSum
    /\ modeSel.decision.maxScore = 15
    /\ modeSel.decision.mode = "multiple" <=> modeSel.decision.score >= 6
    /\ modeSel.decision.mode = "multiple" <=>
         100 * modeSel.decision.score >= 35 * modeSel.decision.maxScore
    /\ modeSel.decision.mode \in {"single", "multiple"}

\* a score of exactly 6 gives multiple
C17_Witness ==
  /\ modeSel.pc = "done"
  /\ ModeNoOverride
  /\ modeSel.decision.score = 6
  /\ modeSel.decision.mode = "multiple"

\* C26: on a readable file of at least 838861 bytes a quick classification
\* of known categories always gets mode multiple through the forced
\* override, whatever its confidences; so a decision of the weighted step
\* never has the criteria highComplexity, multipleRegions or
\* multipleVegetablesDetected true
C26_LargeFileForcesMultiple ==
  /\ (modeSel.pc = "done" /\ modeSel.statOk /\ modeSel.predictOk
        /\ modeSel.fileSize >= 838861 /\ modeSel.quickPrediction \in ClassifierOutputs) =>
       /\ modeSel.decision.mode = "multiple"
       /\ modeSel.decision.branch = "forcedMultiple"
       /\ ModeContext.isLikelyMultiVegetable
  /\ (modeSel.pc = "done" /\ modeSel.decision.branch = "scored") =>
       /\ ~modeSel.decision.criteria.highComplexity
       /\ ~modeSel.decision.criteria.multipleRegions
       /\ ~modeSel.decision.criteria.multipleVegetablesDetected

\* a file of exactly 838861 bytes with a top confidence of 100 is sent to
\* the multiple path by the override alone
C26_Witness ==
  /\ modeSel.pc = "done"
  /\ modeSel.statOk /\ modeSel.predictOk
  /\ modeSel.fileSize = 838861
  /\ modeSel.quickPrediction \in ClassifierOutputs
  /\ modeSel.quickPrediction[1].confidence = 100
  /\ modeSel.decision.branch = "forcedMultiple"
  /\ ModeContext.multiVegetableScore = 6

(***************************************************************************)
(* SpecAgg: the zone loop, includeWeakButKnownVegetables and               *)
(* aggregateResults of detectMultipleVegetables, on every global           *)
(* prediction and every sequence of zone classifications.                  *)
(***************************************************************************)
\* zones of one call that the model classifies (at most GridSize * GridSize)
MaxAggZones == 3

\* the classifier ends in a softmax: the three confidences add up to 100.
\* Second and third confidences on and around the thresholds 20, 25, 30 of
\* the recovery pass; the first one is what is left of 100.
SecondConfValues == {5, 10, 21, 25, 26, 29, 30, 35, 40, 47}
ThirdConfValues == {0, 5, 10, 20, 21, 25, 26, 29, 30, 33}

SoftmaxConfidences ==
  {<<100 - b - c, b, c>> : b \in SecondConfValues, c \in ThirdConfValues}

Permutations3 ==
  {o \in [1..NumClasses -> knownVegetables] :
     \A i, j \in 1..NumClasses : i # j => o[i] # o[j]}

AggGlobals ==
  { [i \in 1..NumClasses |-> Pred(o[i], cs[i])] :
      cs \in {c \in SoftmaxConfidences : c[1] >= c[2] /\ c[2] >= c[3]},
      o \in Permutations3 }

\* what the classifier may answer for one zone image
ZoneOutputs ==
  {<<Pred("Tomate", 80), Pred("Carotte", 15), Pred("Pomme de terre", 5)>>,
   <<Pred("Tomate", 46), Pred("Carotte", 40), Pred("Pomme de terre", 14)>>,
   <<Pred("Pomme de terre", 48), Pred("Carotte", 36), Pred("Tomate", 16)>>,
   <<Pred("Pomme de terre", 51), Pred("Tomate", 45), Pred("Carotte", 4)>>,
   <<Pred("Pomme de terre", 50), Pred("Carotte", 35), Pred("Tomate", 15)>>}

InitAgg ==
  /\ agg \in [pc : {"zones"},
              globalResult : AggGlobals,
              zonesDone : {0},
              classified : {<<>>},
              zoneResults : {<<>>},
              enhancedZoneResults : {<<>>},
              detected : {<<>>},
              enriched : {<<>>}]
  /\ heur = HeurIdle
  /\ modeSel = ModeIdle
  /\ FlowIdle
  /\ HarnessIdle

\* one turn of the zone loop: classify zone zonesDone + 1, filter, push
AggClassifyZone ==
  /\ agg.pc = "zones"
  /\ agg.zonesDone < MaxAggZones
  /\ agg.zonesDone < GridSize * GridSize
  /\ \E zoneResult \in ZoneOutputs :
       agg' = [agg EXCEPT
                 !.zonesDone = @ + 1,
                 !.classified = Append(@, zoneResult),
                 !.zoneResults = pushZone(@, agg.zonesDone + 1, zoneResult)]
  /\ UNCHANGED <<heur, modeSel>>
  /\ UNCHANGED flowVars
  /\ UNCHANGED harnessVars

\* after the loop: recovery pass, then aggregation; the caller,
\* performMultipleDetection, maps the returned list to enrichedVegetables
AggAggregate ==
  /\ agg.pc = "zones"
  /\ agg.zonesDone >= 1
  /\ LET enhanced == includeWeakButKnownVegetables(agg.globalResult, agg.zoneResults)
         detected == aggregateResults(agg.globalResult, enhanced)
     IN  agg' = [agg EXCEPT
                   !.pc = "done",
                   !.enhancedZoneResults = enhanced,
                   !.detected = detected,
                   !.enriched = enrichedVegetables(detected)]
  /\ UNCHANGED <<heur, modeSel>>
  /\ UNCHANGED flowVars
  /\ UNCHANGED harnessVars

NextAgg == AggClassifyZone \/ AggAggregate

SpecAgg == InitAgg /\ [][NextAgg]_vars

\* the confidence the global pass reports for a category
GlobalConfidence(globalResult, type) ==
  LET i == CHOOSE i \in 1..Len(globalResult) : globalResult[i].class = type
  IN  globalResult[i].confidence

\* C3: the list returned by aggregateResults holds each category at most
\* once, and the recovery pass adds no entry for a category that a grid
\* zone already detected, whatever its global confidence.
C3_OneObjectPerCategory ==
  agg.pc = "done" =>
    /\ \A i, j \in 1..Len(agg.detected) :
         i # j => agg.detected[i].type # agg.detected[j].type
    /\ \A i, j \in 1..Len(agg.enhancedZoneResults) :
         (/\ agg.enhancedZoneResults[i].zone # RecoveryZone
          /\ agg.enhancedZoneResults[j].zone = RecoveryZone)
           => agg.enhancedZoneResults[i].topVegetable.class
                # agg.enhancedZoneResults[j].topVegetable.class

\* two grid zones detected a category that the global pass ranks above 25,
\* and another category is detected too
C3_Witness ==
  /\ agg.pc = "done"
  /\ Len(agg.detected) >= 2
  /\ \E i, j \in 1..Len(agg.zoneResults) :
       /\ i # j
       /\ agg.zoneResults[i].topVegetable.class = agg.zoneResults[j].topVegetable.class
       /\ GlobalConfidence(agg.globalResult, agg.zoneResults[i].topVegetable.class) > 25

\* C4: the confidence of a detected object is at least the confidence of
\* every zone entry that named its category as top vegetable and at least
\* the global confidence of its category; step 2 never lowers what step 1
\* computed.
C4_ConfidenceAtLeastReported ==
  agg.pc = "done" =>
    \A k \in 1..Len(agg.detected) :
      LET d == agg.detected[k]
          zoneStage == aggregateZones(<<>>, agg.enhancedZoneResults)
      IN  /\ \A i \in 1..Len(agg.enhancedZoneResults) :
                agg.enhancedZoneResults[i].topVegetable.class = d.type
                  => d.confidence >= agg.enhancedZoneResults[i].topVegetable.confidence
          /\ d.confidence >= GlobalConfidence(agg.globalResult, d.type)
          /\ \A i \in 1..Len(zoneStage) :
                zoneStage[i].type = d.type => d.confidence >= zoneStage[i].confidence

\* one object was raised by the global pass ('enhanced') and another one
\* keeps a zone confidence that is above its global confidence
C4_Witness ==
  /\ agg.pc = "done"
  /\ \E k \in 1..Len(agg.detected) : agg.detected[k].detectionMethod = "enhanced"
  /\ \E k \in 1..Len(agg.detected) :
       /\ methodIncludesZone(agg.detected[k].detectionMethod)
       /\ agg.detected[k].confidence
            > GlobalConfidence(agg.globalResult, agg.detected[k].type)

\* the confidences reported for a category: by the zones whose top vegetable
\* it is (for a recovery entry, the global prediction it was built from) and
\* by the global pass
ReportedConfidences(type) ==
  {agg.enhancedZoneResults[i].vegetables[1].confidence :
     i \in {j \in 1..Len(agg.enhancedZoneResults) :
              agg.enhancedZoneResults[j].topVegetable.class = type}}
    \cup {GlobalConfidence(agg.globalResult, type)}

MaxReported(type) ==
  CHOOSE m \in ReportedConfidences(type) : \A x \in ReportedConfidences(type) : x <= m

\* C5 as stated: no detected object has more confidence than the maximum
\* that a contributing zone or the global pass reported for its category.
C5_Original_NeverAboveReported ==
  agg.pc = "done" =>
    \A k \in 1..Len(agg.detected) :
      agg.detected[k].confidence <= MaxReported(agg.detected[k].type)

\* C5 amended: a detected object has at most the maximum reported
\* confidence of its category, except an object that comes from the global
\* pass alone (no grid zone named it) with a global confidence of 21..29,
\* which is lifted to exactly 30.
C5_NeverAboveReportedOrFloor ==
  agg.pc = "done" =>
    \A k \in 1..Len(agg.detected) :
      LET d == agg.detected[k]
      IN  \/ d.confidence <= MaxReported(d.type)
          \/ /\ d.confidence = 30
             /\ d.detectionMethod \in {"global-recovery", "global-weak"}
             /\ d.type \notin detectedTypes(agg.zoneResults)
             /\ GlobalConfidence(agg.globalResult, d.type) \in 21..29

\* a recovered object stands at 30 although the global pass said less
C5_Witness ==
  /\ agg.pc = "done"
  /\ \E k \in 1..Len(agg.detected) :
       /\ agg.detected[k].detectionMethod = "global-recovery"
       /\ agg.detected[k].confidence = 30
       /\ MaxReported(agg.detected[k].type) < 30


\* the thresholds as the claim words them
ClaimedThreshold(class) ==
  IF class = "Tomate" THEN 45
  ELSE IF class = "Carotte" THEN 35
  ELSE IF class = "Pomme de terre" THEN 50
  ELSE 50

PassesClaimedThreshold(pred) == pred.confidence > ClaimedThreshold(pred.class)

\* what the claim keeps of the predictions of zone i
Kept(i) == SelectSeq(agg.classified[i], PassesClaimedThreshold)

OtherCategories ==
  <<Pred("Courgette", 51), Pred("Poivron", 50), Pred("Tomate", 45), Pred("Carotte", 36)>>

\* C18: the zone results are, in zone order, one entry per classified zone
\* whose filtered list is not empty, holding exactly the predictions above
\* the threshold of their category in the classifier's order; a category
\* outside the table is held to 50
C18_ZoneFilterStrict ==
  /\ agg.pc # "idle" =>
       /\ \A j \in 1..Len(agg.zoneResults) :
            /\ agg.zoneResults[j].zone \in 1..agg.zonesDone
            /\ agg.zoneResults[j].vegetables = Kept(agg.zoneResults[j].zone)
            /\ agg.zoneResults[j].vegetables # <<>>
            /\ agg.zoneResults[j].topVegetable = agg.zoneResults[j].vegetables[1]
       /\ \A j, k \in 1..Len(agg.zoneResults) :
            j < k => agg.zoneResults[j].zone < agg.zoneResults[k].zone
       /\ \A i \in 1..agg.zonesDone :
            Kept(i) # <<>> => \E j \in 1..Len(agg.zoneResults) : agg.zoneResults[j].zone = i
  /\ reliablePredictions(OtherCategories) = <<Pred("Courgette", 51), Pred("Carotte", 36)>>

\* one zone kept two predictions in the classifier's order, another zone
\* was filtered to nothing although a confidence sat on its threshold
C18_Witness ==
  /\ agg.pc # "idle"
  /\ \E j \in 1..Len(agg.zoneResults) : Len(agg.zoneResults[j].vegetables) = 2
  /\ \E i \in 1..agg.zonesDone :
       /\ Kept(i) = <<>>
       /\ \E n \in 1..Len(agg.classified[i]) :
            agg.classified[i][n].confidence = ClaimedThreshold(agg.classified[i][n].class)
       /\ \A j \in 1..Len(agg.zoneResults) : agg.zoneResults[j].zone # i

\* the categories a zone of the grid reported as its top vegetable
ZoneTypes == detectedTypes(agg.zoneResults)

\* the entries of the returned list that the recovery pass brought in
RecoveredAs(type) ==
  {k \in 1..Len(agg.detected) :
     /\ agg.detected[k].type = type
     /\ agg.detected[k].detectionMethod = "global-recovery"}

GridZoneLabels == {zoneLabel(n) : n \in 1..(GridSize * GridSize)}

\* an object a grid zone reported first: its first position is a grid zone
FromGridZone(d) == d.positions[1] \in GridZoneLabels

\* C21: in the returned list every object first reported by a grid zone,
\* multi-zone and enhanced ones included, stands before every object that
\* comes from the global pass only, and inside each of the two groups the
\* confidences do not increase
C21_ZoneDerivedFirst ==
  agg.pc = "done" =>
    \A j, k \in 1..Len(agg.detected) :
      j < k =>
        /\ FromGridZone(agg.detected[k]) => FromGridZone(agg.detected[j])
        /\ FromGridZone(agg.detected[j]) = FromGridZone(agg.detected[k])
             => agg.detected[j].confidence >= agg.detected[k].confidence


\* the index of the grid zone a position label names
ZoneIndexOf(label) == CHOOSE n \in 1..(GridSize * GridSize) : zoneLabel(n) = label

\* the entries of a list of zone results that come from the grid
GridEntries(zoneResults) == SelectSeq(zoneResults, LAMBDA z : z.zone # RecoveryZone)

AscendingZones(zoneResults) ==
  \A j, k \in 1..Len(zoneResults) :
    j < k => zoneResults[j].zone < zoneResults[k].zone

\* C23: the zone results are collected in ascending zone index; the list
\* handed to aggregateResults is the collected list followed by the
\* global-recovery entries; the positions of every returned object name
\* its grid zones in ascending index
C23_ZoneOrderPreserved ==
  /\ agg.pc # "idle" =>
       /\ AscendingZones(agg.zoneResults)
       /\ \A j \in 1..Len(agg.zoneResults) : agg.zoneResults[j].zone \in 1..agg.zonesDone
  /\ agg.pc = "done" =>
       /\ GridEntries(agg.enhancedZoneResults) = agg.zoneResults
       /\ \A j, k \in 1..Len(agg.enhancedZoneResults) :
            (j < k /\ agg.enhancedZoneResults[j].zone = RecoveryZone)
              => agg.enhancedZoneResults[k].zone = RecoveryZone
       /\ \A n \in 1..Len(agg.detected) :
            LET positions == agg.detected[n].positions
            IN  \A j, k \in 1..Len(positions) :
                  (j < k /\ positions[j] \in GridZoneLabels /\ positions[k] \in GridZoneLabels)
                    => ZoneIndexOf(positions[j]) < ZoneIndexOf(positions[k])

\* an object named by two grid zones, and a recovery entry behind two grid
\* entries in the list handed to aggregateResults
C23_Witness ==
  /\ agg.pc = "done"
  /\ Len(agg.zoneResults) >= 2
  /\ Len(agg.enhancedZoneResults) > Len(agg.zoneResults)
  /\ \E n \in 1..Len(agg.detected) :
       /\ Len(agg.detected[n].positions) >= 2
       /\ agg.detected[n].positions[1] \in GridZoneLabels
       /\ agg.detected[n].positions[2] \in GridZoneLabels


\* C27: every object returned by the aggregation has a confidence of at
\* least 30, and the re-evaluation of performMultipleDetection marks none
\* of them unknown: each enriched entry keeps its name and confidence
C27_DetectedNeverUnknown ==
  agg.pc = "done" =>
    /\ Len(agg.enriched) = Len(agg.detected)
    /\ \A k \in 1..Len(agg.detected) :
         /\ agg.detected[k].confidence >= 30
         /\ agg.enriched[k].isUnknown = "false"
         /\ agg.enriched[k].name # "unknown_vegetable"
         /\ agg.enriched[k].confidence = agg.detected[k].confidence

\* an object stands at exactly 30, below the 40 of the first criterion,
\* and is kept as known
C27_Witness ==
  /\ agg.pc = "done"
  /\ \E k \in 1..Len(agg.detected) :
       /\ agg.detected[k].confidence = 30
       /\ agg.enriched[k].isUnknown = "false"
       /\ uncertaintyScore(unknownCriteria(mockPredictions(agg.detected[k]))) = 1


(***************************************************************************)
(* Spec: one POST /recognize-vegetable request, from initializeClassifiers *)
(* to the answer, with the failures the environment can cause              *)
(***************************************************************************)
\* how many failures of the environment (a load, a stat, a prediction, an
\* extraction, a database save) one request meets at most
MaxFaults == 2

Cost(ok) == IF ok THEN 0 ELSE 1

\* initializeClassifiers: an instance is assigned before its model loads, so
\* a failed load leaves an instance that is not null and not loaded
initializeClassifiers(cl, md, clLoadOk, mdLoadOk) ==
  LET cl1    == IF cl = "null" THEN (IF clLoadOk THEN "loaded" ELSE "unloaded") ELSE cl
      threw1 == cl = "null" /\ ~clLoadOk
      md1    == IF threw1 \/ md # "null" THEN md
                ELSE IF mdLoadOk THEN "loaded" ELSE "unloaded"
      threw2 == ~threw1 /\ md = "null" /\ ~mdLoadOk
  IN  [classifier |-> cl1, multiDetector |-> md1, threw |-> threw1 \/ threw2]

\* the call at module load has settled before the request arrives
LoadStates ==
  {initializeClassifiers("null", "null", a, b) : a, b \in BOOLEAN}

\* what the model answers for the whole image (a softmax: the sum is 100)
ImagePreds ==
  {<<Pred("Tomate", 85), Pred("Carotte", 10), Pred("Pomme de terre", 5)>>,
   <<Pred("Tomate", 62), Pred("Carotte", 30), Pred("Pomme de terre", 8)>>,
   <<Pred("Tomate", 35), Pred("Carotte", 33), Pred("Pomme de terre", 32)>>,
   <<Pred("Carotte", 50), Pred("Tomate", 29), Pred("Pomme de terre", 21)>>,
   <<Pred("Pomme de terre", 60), Pred("Carotte", 28), Pred("Tomate", 12)>>}

\* what the model answers for the nine cells of the image, row by row
ZoneTomato == <<Pred("Tomate", 80), Pred("Carotte", 15), Pred("Pomme de terre", 5)>>
ZoneCarrot == <<Pred("Pomme de terre", 48), Pred("Carotte", 36), Pred("Tomate", 16)>>
ZonePotato == <<Pred("Pomme de terre", 51), Pred("Tomate", 45), Pred("Carotte", 4)>>
ZoneNothing == <<Pred("Pomme de terre", 50), Pred("Carotte", 35), Pred("Tomate", 15)>>

Scenes ==
  {<<ZoneTomato, ZoneTomato, ZoneNothing, ZoneTomato, ZoneTomato, ZoneNothing,
     ZoneNothing, ZoneNothing, ZoneNothing>>,
   <<ZoneTomato, ZoneNothing, ZoneCarrot, ZoneNothing, ZonePotato, ZoneNothing,
     ZoneCarrot, ZoneNothing, ZoneTomato>>,
   <<ZoneNothing, ZoneNothing, ZoneNothing, ZoneNothing, ZoneNothing, ZoneNothing,
     ZoneNothing, ZoneNothing, ZoneNothing>>}

\* file sizes: small, above 500 KB, above half of the 2 MB complexity cap
RequestFileSizes == {100000, 600000, 1200000}

\* width and height: below, on and above the 150 px minimum of the grid
ImageDims == {<<140, 140>>, <<300, 149>>, <<150, 150>>, <<200, 152>>}

Images ==
  {[fileSize |-> f, width |-> d[1], height |-> d[2], pred |-> p, scene |-> sc] :
     f \in RequestFileSizes, d \in ImageDims, p \in ImagePreds, sc \in Scenes}

Init ==
  /\ heur = HeurIdle
  /\ modeSel = ModeIdle
  /\ agg = AggIdle
  /\ pc = "initialize"
  /\ image \in Images
  /\ faults = 0
  /\ \E l \in LoadStates : classifier = l.classifier /\ multiDetector = l.multiDetector
  /\ detectionAnalysis = modeFallback(NoAnalysis)
  /\ det = DetIdle
  /\ tempDir = FALSE
  /\ tempFiles = {}
  /\ created = {}
  /\ deleted = <<>>
  /\ response = NoResponse
  /\ HarnessIdle

\* res.status(500).json({ success: false, error: error.message })
errorResponse(message) == [NoResponse EXCEPT !.status = 500, !.error = message]

\* await initializeClassifiers() in the route
RecognizeInitialize ==
  /\ pc = "initialize"
  /\ \E clLoadOk, mdLoadOk \in BOOLEAN :
       LET r    == initializeClassifiers(classifier, multiDetector, clLoadOk, mdLoadOk)
           cost == (IF classifier = "null" THEN Cost(clLoadOk) ELSE 0)
                   + (IF multiDetector = "null" /\ (classifier # "null" \/ clLoadOk)
                        THEN Cost(mdLoadOk) ELSE 0)
       IN  /\ classifier # "null" => clLoadOk
           /\ (multiDetector # "null" \/ (classifier = "null" /\ ~clLoadOk)) => mdLoadOk
           /\ faults + cost <= MaxFaults
           /\ faults' = faults + cost
           /\ classifier' = r.classifier
           /\ multiDetector' = r.multiDetector
           /\ IF r.threw
                THEN /\ response' = errorResponse(<<"Chargement du modele impossible">>)
                     /\ pc' = "done"
                ELSE /\ response' = response
                     /\ pc' = "mode"
  /\ UNCHANGED <<image, detectionAnalysis, det, tempDir, tempFiles, created, deleted>>
  /\ UNCHANGED pureVars
  /\ UNCHANGED harnessVars

\* const detectionAnalysis = await determineDetectionMode(imagePath), and the
\* branch on detectedMode
RecognizeDetermineMode ==
  /\ pc = "mode"
  /\ \E statOk, scanOk \in BOOLEAN :
       LET cost == Cost(statOk) + (IF classifier = "loaded" THEN Cost(scanOk) ELSE 0)
           decision == determineDetectionMode(image.fileSize, statOk, scanOk, image.pred)
       IN  /\ classifier # "loaded" => ~scanOk
           /\ faults + cost <= MaxFaults
           /\ faults' = faults + cost
           /\ detectionAnalysis' = decision
           /\ pc' = IF decision.mode = "multiple" THEN "multiple" ELSE "single"
  /\ UNCHANGED <<image, classifier, multiDetector, det, tempDir, tempFiles,
                 created, deleted, response>>
  /\ UNCHANGED pureVars
  /\ UNCHANGED harnessVars


\* the error classifier.predict throws
predictError(state) ==
  IF state = "loaded" THEN <<"Erreur de prediction">> ELSE <<"Modele non charge">>

\* step 1 of detectMultipleVegetables: the whole image is classified by the
\* detector's own classifier
DetectGlobal ==
  /\ pc = "multiple"
  /\ \E ok \in BOOLEAN :
       LET cost == IF multiDetector = "loaded" THEN Cost(ok) ELSE 0
       IN  /\ multiDetector # "loaded" => ~ok
           /\ faults + cost <= MaxFaults
           /\ faults' = faults + cost
           /\ IF ok
                THEN /\ det' = [DetIdle EXCEPT !.globalResult = image.pred]
                     /\ pc' = "gridChecks"
                ELSE /\ det' = [DetIdle EXCEPT !.error = predictError(multiDetector)]
                     /\ pc' = "detectCatch"
  /\ UNCHANGED <<image, classifier, multiDetector, detectionAnalysis, tempDir,
                 tempFiles, created, deleted, response>>
  /\ UNCHANGED pureVars
  /\ UNCHANGED harnessVars

\* plausible slip: a minimum of 140 px instead of 150 px
gridCheckErrorLow(width, height) ==
  IF width = 0 \/ height = 0 THEN <<"Metadonnees invalides">>
  ELSE IF width < 140 \/ height < 140 THEN <<"Image trop petite">>
  ELSE IF width \div GridSize < 50 \/ height \div GridSize < 50
    THEN <<"Zones calculees trop petites">>
  ELSE <<>>

\* the checks of createImageGrid before any cell is cut: the message of the
\* error it throws, or the empty message
gridCheckError(width, height) ==
  IF width = 0 \/ height = 0 THEN <<"Metadonnees invalides">>
  ELSE IF width < 150 \/ height < 150 THEN <<"Image trop petite">>
  ELSE IF width \div GridSize < 50 \/ height \div GridSize < 50
    THEN <<"Zones calculees trop petites">>
  ELSE <<>>

\* the catch of createImageGrid wraps every error
gridError(message) == <<"Impossible de creer la grille d'image">> \o message

\* createImageGrid up to the cell loop: metadata, size checks, mkdir
GridChecks ==
  /\ pc = "gridChecks"
  /\ \E metadataOk \in BOOLEAN :
       LET message == IF metadataOk THEN gridCheckError(image.width, image.height)
                      ELSE <<"Lecture des metadonnees impossible">>
       IN  /\ faults + Cost(metadataOk) <= MaxFaults
           /\ faults' = faults + Cost(metadataOk)
           /\ IF message = <<>>
                THEN /\ tempDir' = TRUE
                     /\ det' = det
                     /\ pc' = "gridCells"
                ELSE /\ tempDir' = tempDir
                     /\ det' = [det EXCEPT !.error = gridError(message)]
                     /\ pc' = "detectCatch"
  /\ UNCHANGED <<image, classifier, multiDetector, detectionAnalysis, tempFiles,
                 created, deleted, response>>
  /\ UNCHANGED pureVars
  /\ UNCHANGED harnessVars

cellPositionNoRemainder(row, col, width, height) ==
  LET zoneWidth  == width \div GridSize
      zoneHeight == height \div GridSize
  IN  [row |-> row, col |-> col, left |-> col * zoneWidth, top |-> row * zoneHeight,
       width |-> zoneWidth, height |-> zoneHeight]

\* the rectangle of the cell at (row, col); the last row and column take
\* what is left of the image
cellPosition(row, col, width, height) ==
  LET zoneWidth  == width \div GridSize
      zoneHeight == height \div GridSize
      left == col * zoneWidth
      top  == row * zoneHeight
  IN  [row |-> row, col |-> col, left |-> left, top |-> top,
       width  |-> IF col = GridSize - 1 THEN width - left ELSE zoneWidth,
       height |-> IF row = GridSize - 1 THEN height - top ELSE zoneHeight]

\* the three tests that make the loop skip a cell
cellSkipped(position, width, height) ==
  \/ position.left >= width \/ position.top >= height
  \/ position.width <= 0 \/ position.height <= 0
  \/ position.width < 30 \/ position.height < 30

\* zone_<row>_<col>_<timestamp>_<random>.jpg in temp_zones
zonePath(row, col) == [row |-> row, col |-> col]

\* what sharp().toFile() and the two checks after it can come to: the file is
\* written and kept; the extraction rejects and leaves no file; a file is
\* left but it is empty, and the check throws
CellOutcomes == {"written", "rejected", "empty"}

\* one turn of the cell loop of createImageGrid, its try and catch included
GridCell ==
  /\ pc = "gridCells"
  /\ det.cell < GridSize * GridSize
  /\ LET row == det.cell \div GridSize
         col == det.cell % GridSize
         position == cellPosition(row, col, image.width, image.height)
     IN  IF cellSkipped(position, image.width, image.height)
           THEN /\ det' = [det EXCEPT !.cell = @ + 1]
                /\ UNCHANGED <<faults, tempFiles, created>>
           ELSE \E outcome \in CellOutcomes :
                  /\ faults + Cost(outcome = "written") <= MaxFaults
                  /\ faults' = faults + Cost(outcome = "written")
                  /\ tempFiles' = IF outcome = "rejected" THEN tempFiles
                                  ELSE tempFiles \cup {zonePath(row, col)}
                  /\ created' = IF outcome = "rejected" THEN created
                                ELSE created \cup {zonePath(row, col)}
                  /\ det' = [det EXCEPT
                               !.cell = @ + 1,
                               !.cellFailures = @ + Cost(outcome = "written"),
                               !.gridZones =
                                 IF outcome = "written"
                                   THEN Append(@, [path |-> zonePath(row, col),
                                                   position |-> position])
                                   ELSE @]
  /\ UNCHANGED <<pc, image, classifier, multiDetector, detectionAnalysis, tempDir,
                 deleted, response>>
  /\ UNCHANGED pureVars
  /\ UNCHANGED harnessVars

\* after the cell loop: no zone at all is an error, else the zones are
\* returned to detectMultipleVegetables
GridEnd ==
  /\ pc = "gridCells"
  /\ det.cell = GridSize * GridSize
  /\ IF Len(det.gridZones) = 0
       THEN /\ det' = [det EXCEPT !.error = gridError(<<"Aucune zone valide">>)]
            /\ pc' = "detectCatch"
       ELSE /\ det' = [det EXCEPT !.zones = det.gridZones]
            /\ pc' = "zones"
  /\ UNCHANGED <<image, faults, classifier, multiDetector, detectionAnalysis,
                 tempDir, tempFiles, created, deleted, response>>
  /\ UNCHANGED pureVars
  /\ UNCHANGED harnessVars

\* what the model answers for the image of a zone
zonePrediction(zone) ==
  image.scene[zone.position.row * GridSize + zone.position.col + 1]

\* plausible slip: the zone loop without its own try and catch, so that a
\* zone whose classification throws ends the call
DetectZoneAborting ==
  /\ pc = "zones"
  /\ det.zoneIdx < Len(det.zones)
  /\ \E ok \in BOOLEAN :
       /\ faults + Cost(ok) <= MaxFaults
       /\ faults' = faults + Cost(ok)
       /\ IF ok
            THEN /\ det' = [det EXCEPT
                              !.zoneIdx = @ + 1,
                              !.zoneResults =
                                pushZone(@, det.zoneIdx + 1,
                                         zonePrediction(det.zones[det.zoneIdx + 1]))]
                 /\ pc' = pc
            ELSE /\ det' = [det EXCEPT !.zoneFailures = @ + 1,
                                       !.error = predictError(multiDetector)]
                 /\ pc' = "detectCatch"
  /\ UNCHANGED <<image, classifier, multiDetector, detectionAnalysis, tempDir,
                 tempFiles, created, deleted, response>>
  /\ UNCHANGED pureVars
  /\ UNCHANGED harnessVars

\* one turn of the zone loop of detectMultipleVegetables, its try and catch
\* included: a zone whose classification throws is passed over
DetectZone ==
  /\ pc = "zones"
  /\ det.zoneIdx < Len(det.zones)
  /\ \E ok \in BOOLEAN :
       /\ faults + Cost(ok) <= MaxFaults
       /\ faults' = faults + Cost(ok)
       /\ det' = [det EXCEPT
                    !.zoneIdx = @ + 1,
                    !.zoneFailures = @ + Cost(ok),
                    !.zoneResults =
                      IF ok THEN pushZone(@, det.zoneIdx + 1,
                                          zonePrediction(det.zones[det.zoneIdx + 1]))
                      ELSE @]
  /\ UNCHANGED <<pc, image, classifier, multiDetector, detectionAnalysis, tempDir,
                 tempFiles, created, deleted, response>>
  /\ UNCHANGED pureVars
  /\ UNCHANGED harnessVars


\* the loop of cleanupTempFiles from zone k on: a path is unlinked if it
\* still exists; st holds the files of temp_zones and the unlink log
RECURSIVE unlinkZones(_, _, _)
unlinkZones(zones, k, st) ==
  IF k > Len(zones) THEN st
  ELSE IF zones[k].path \in st.files
    THEN unlinkZones(zones, k + 1,
                     [files |-> st.files \ {zones[k].path},
                      deleted |-> Append(st.deleted, zones[k].path)])
  ELSE unlinkZones(zones, k + 1, st)

\* cleanupTempFiles: the zone files, then temp_zones itself if it is empty
cleanupTempFiles(zones, files, log, dirExists) ==
  LET st == unlinkZones(zones, 1, [files |-> files, deleted |-> log])
  IN  [files |-> st.files, deleted |-> st.deleted,
       dirExists |-> dirExists /\ st.files # {}]

\* steps 4 to 6 of detectMultipleVegetables: recovery pass, aggregation,
\* cleanup, return
DetectFinish ==
  /\ pc = "zones"
  /\ det.zoneIdx = Len(det.zones)
  /\ LET enhanced == includeWeakButKnownVegetables(det.globalResult, det.zoneResults)
         cleaned  == cleanupTempFiles(det.zones, tempFiles, deleted, tempDir)
     IN  /\ det' = [det EXCEPT
                      !.enhancedZoneResults = enhanced,
                      !.detected = aggregateResults(det.globalResult, enhanced),
                      !.outcome = "returned"]
         /\ tempFiles' = cleaned.files
         /\ deleted' = cleaned.deleted
         /\ tempDir' = cleaned.dirExists
  /\ pc' = "multipleFinish"
  /\ UNCHANGED <<image, faults, classifier, multiDetector, detectionAnalysis,
                 created, response>>
  /\ UNCHANGED pureVars
  /\ UNCHANGED harnessVars

\* the catch of detectMultipleVegetables: cleanup if zones were returned,
\* then the error is thrown again
DetectCatch ==
  /\ pc = "detectCatch"
  /\ LET cleaned == IF Len(det.zones) > 0
                      THEN cleanupTempFiles(det.zones, tempFiles, deleted, tempDir)
                      ELSE [files |-> tempFiles, deleted |-> deleted,
                            dirExists |-> tempDir]
     IN  /\ tempFiles' = cleaned.files
         /\ deleted' = cleaned.deleted
         /\ tempDir' = cleaned.dirExists
  /\ det' = [det EXCEPT !.outcome = "threw", !.multipleError = det.error]
  /\ pc' = "fallback"
  /\ UNCHANGED <<image, faults, classifier, multiDetector, detectionAnalysis,
                 created, response>>
  /\ UNCHANGED pureVars
  /\ UNCHANGED harnessVars

\* the answer of performMultipleDetection when nothing threw
multipleResponse(globalResult, detected) ==
  [NoResponse EXCEPT
     !.status = 200,
     !.detectionType = "multiple",
     !.dominantVegetable = dominantVegetable(globalResult),
     !.detectedVegetables = enrichedVegetables(detected)]

\* performMultipleDetection after detectMultipleVegetables has returned:
\* enrichment, database record, dominant vegetable, answer
MultipleFinish ==
  /\ pc = "multipleFinish"
  /\ \E saveOk \in BOOLEAN :
       /\ faults + Cost(saveOk) <= MaxFaults
       /\ faults' = faults + Cost(saveOk)
       /\ IF saveOk
            THEN /\ response' = multipleResponse(det.globalResult, det.detected)
                 /\ det' = det
                 /\ pc' = "done"
            ELSE /\ response' = response
                 /\ det' = [det EXCEPT !.multipleError = <<"Enregistrement impossible">>]
                 /\ pc' = "fallback"
  /\ UNCHANGED <<image, classifier, multiDetector, detectionAnalysis, tempDir,
                 tempFiles, created, deleted>>
  /\ UNCHANGED pureVars
  /\ UNCHANGED harnessVars

\* the answer of performSingleDetection
singleResponse(predictions, fileSize) ==
  LET result == singleResult(ClassifierHasClassify, predictions,
                             analyzeImageComplexity(fileSize, TRUE))
  IN  [NoResponse EXCEPT
         !.status = 200,
         !.detectionType = "single",
         !.vegetable = result.vegetable,
         !.hasUnknownAnalysis = result.hasUnknownAnalysis]

\* performSingleDetection as the route and the fallback call it: the answer,
\* or the error response when the classification or the save throws
singleDetection(classifyOk, saveOk) ==
  IF ~classifyOk THEN errorResponse(predictError(classifier))
  ELSE IF ~saveOk THEN errorResponse(<<"Enregistrement impossible">>)
  ELSE singleResponse(image.pred, image.fileSize)

\* the catch of performMultipleDetection: the single path, tagged
MultipleFallback ==
  /\ pc = "fallback"
  /\ \E classifyOk, saveOk \in BOOLEAN :
       LET cost == (IF classifier = "loaded" THEN Cost(classifyOk) ELSE 0)
                   + (IF classifyOk THEN Cost(saveOk) ELSE 0)
           single == singleDetection(classifyOk, saveOk)
       IN  /\ classifier # "loaded" => ~classifyOk
           /\ ~classifyOk => saveOk
           /\ faults + cost <= MaxFaults
           /\ faults' = faults + cost
           /\ response' =
                IF single.status = 200
                  THEN [single EXCEPT
                          !.detectionType = "single_fallback",
                          !.fallback = [present |-> TRUE,
                                        originalAttempt |-> "multiple",
                                        fallbackReason |-> det.multipleError,
                                        graceful |-> TRUE]]
                  ELSE single
  /\ pc' = "done"
  /\ UNCHANGED <<image, classifier, multiDetector, detectionAnalysis, det, tempDir,
                 tempFiles, created, deleted>>
  /\ UNCHANGED pureVars
  /\ UNCHANGED harnessVars

\* the single branch of the route
RecognizeSingle ==
  /\ pc = "single"
  /\ \E classifyOk, saveOk \in BOOLEAN :
       LET cost == (IF classifier = "loaded" THEN Cost(classifyOk) ELSE 0)
                   + (IF classifyOk THEN Cost(saveOk) ELSE 0)
       IN  /\ classifier # "loaded" => ~classifyOk
           /\ ~classifyOk => saveOk
           /\ faults + cost <= MaxFaults
           /\ faults' = faults + cost
           /\ response' = singleDetection(classifyOk, saveOk)
  /\ pc' = "done"
  /\ UNCHANGED <<image, classifier, multiDetector, detectionAnalysis, det, tempDir,
                 tempFiles, created, deleted>>
  /\ UNCHANGED pureVars
  /\ UNCHANGED harnessVars

Next ==
  \/ RecognizeInitialize
  \/ RecognizeDetermineMode
  \/ DetectGlobal
  \/ GridChecks
  \/ GridCell
  \/ GridEnd
  \/ DetectZone
  \/ DetectFinish
  \/ DetectCatch
  \/ MultipleFinish
  \/ MultipleFallback
  \/ RecognizeSingle

Spec == Init /\ [][Next]_vars


(***************************************************************************)
(* Claims about the request                                                *)
(***************************************************************************)
\* how often a path was unlinked
Unlinks(path) == Cardinality({k \in 1..Len(deleted) : deleted[k] = path})

\* detectMultipleVegetables has returned or thrown
CallCompleted == det.outcome # "none"

\* C6: once a call of detectMultipleVegetables has returned or thrown, every
\* zone file written into temp_zones has been deleted exactly once and no
\* file is left there
C6_ZoneFilesDeletedOnce ==
  CallCompleted =>
    /\ \A path \in created : Unlinks(path) = 1
    /\ tempFiles = {}

SmallImage == image.width < 150 \/ image.height < 150

\* createImageGrid has been called and has finished its checks
GridChecked == det.globalResult # <<>> /\ pc # "gridChecks"

SingleErrors ==
  {<<"Erreur de prediction">>, <<"Modele non charge">>, <<"Enregistrement impossible">>}

\* C7: for an image narrower or lower than 150 px, createImageGrid throws
\* before any zone file exists, and the request ends with the single result
\* tagged single_fallback, graceful, the reason being the error of
\* createImageGrid, unless the single path itself fails
C7_SmallImageFallsBack ==
  (SmallImage /\ GridChecked) =>
    /\ created = {} /\ det.gridZones = <<>> /\ det.zones = <<>>
    /\ det.error \in {gridError(<<"Image trop petite">>),
                      gridError(<<"Lecture des metadonnees impossible">>)}
    /\ pc \in {"detectCatch", "fallback", "done"}
    /\ pc = "done" =>
         \/ /\ response.status = 200
            /\ response.detectionType = "single_fallback"
            /\ response.fallback = [present |-> TRUE, originalAttempt |-> "multiple",
                                    fallbackReason |-> det.error, graceful |-> TRUE]
            /\ response.vegetable = singleResponse(image.pred, image.fileSize).vegetable
         \/ /\ response.status = 500
            /\ response.error \in SingleErrors

\* a 140x140 image was sent to the grid and the answer is the tagged single
\* result
C7_Witness ==
  /\ pc = "done"
  /\ image.width = 140 /\ image.height = 140
  /\ det.outcome = "threw"
  /\ response.status = 200
  /\ response.detectionType = "single_fallback"
  /\ response.fallback.graceful
  /\ response.fallback.fallbackReason = gridError(<<"Image trop petite">>)

IsReportedUnknown(veg) == veg.isUnknown = "true" \/ veg.name = "unknown_vegetable"

\* C9: when the mode decision saw a multi-vegetable context, the multiple
\* answer reports neither the dominant vegetable nor any detected vegetable
\* as unknown
C9_MultiContextNothingUnknown ==
  (/\ pc = "done"
   /\ detectionAnalysis.contextAnalysis.isLikelyMultiVegetable
   /\ response.detectionType = "multiple") =>
    /\ ~IsReportedUnknown(response.dominantVegetable)
    /\ \A k \in 1..Len(response.detectedVegetables) :
         ~IsReportedUnknown(response.detectedVegetables[k])

\* C10: the vegetable of a single answer carries the verdict of
\* shouldClassifyAsUnknown on the image's predictions, and an unknown verdict
\* is reported as unknown_vegetable, confidence 0, not reliable
C10_SinglePathAppliesHeuristic ==
  (/\ pc = "done"
   /\ response.status = 200
   /\ response.detectionType \in {"single", "single_fallback"}) =>
    LET verdict == shouldClassifyAsUnknown(image.pred,
                     analyzeImageComplexity(image.fileSize, TRUE))
    IN  /\ response.vegetable.isUnknown = JsBool(verdict.isUnknown)
        /\ verdict.isUnknown =>
             /\ response.vegetable.name = "unknown_vegetable"
             /\ response.vegetable.confidence = 0
             /\ ~response.vegetable.isReliable


\* the errors that mean the classifier is not available: a model that could
\* not be loaded, a whole-image classification that threw
ClassifierErrors ==
  {<<"Chargement du modele impossible">>, <<"Erreur de prediction">>,
   <<"Modele non charge">>}

\* C11: a request ends in a 500 answer only if the classifier was not
\* available; every other failure still ends in a 200 answer
C11_FailureOnlyOnClassifierError ==
  pc = "done" =>
    /\ response.status \in {200, 500}
    /\ response.status = 500 => response.error \in ClassifierErrors


(***************************************************************************)
(* SpecTotal: one heuristic function called on one input, the empty        *)
(* prediction list included                                                *)
(***************************************************************************)
HeuristicFunctions ==
  {"calculatePredictionDiversity", "analyzeImageContext", "shouldClassifyAsUnknown",
   "simulateQuickScan", "aggregateResults"}

CallConfValues == {0, 18, 25, 38, 60, 85}

\* the empty list and every sorted list of at most NumClasses predictions
CallLists ==
  {<<>>} \cup
  UNION { { [i \in 1..n |-> Pred(o[i], cs[i])] :
              cs \in {c \in [1..n -> CallConfValues] :
                        \A i \in 1..(n - 1) : c[i] >= c[i + 1]},
              o \in ClassOrders }
          : n \in 1..NumClasses }

CallAnalyses ==
  {analyzeImageComplexity(fs, TRUE) : fs \in {1000, 600000, 1200000, 2097152}}
    \cup {analyzeImageComplexity(0, FALSE)}

\* only shouldClassifyAsUnknown has a default for a missing imageAnalysis
InitTotal ==
  /\ call \in {c \in [pc : {"ready"}, fn : HeuristicFunctions,
                      predictions : CallLists,
                      imageAnalysis : CallAnalyses \cup {NoAnalysis},
                      outcome : {"none"}] :
                 c.imageAnalysis = NoAnalysis => c.fn = "shouldClassifyAsUnknown"}
  /\ grid = GridIdle
  /\ ConcIdle
  /\ heur = HeurIdle
  /\ modeSel = ModeIdle
  /\ agg = AggIdle
  /\ FlowIdle

\* the call has returned value, or has thrown
Returned(value) == [call EXCEPT !.pc = "done", !.outcome = "returned"] @@ [value |-> value]
Threw == [call EXCEPT !.pc = "done", !.outcome = "threw"] @@ [value |-> "TypeError"]

CallDiversity ==
  /\ call.pc = "ready" /\ call.fn = "calculatePredictionDiversity"
  /\ call' = IF calculatePredictionDiversityThrows(call.predictions) THEN Threw
             ELSE Returned(calculatePredictionDiversity(call.predictions))
  /\ UNCHANGED <<heur, modeSel, agg, grid>>
  /\ UNCHANGED concVars
  /\ UNCHANGED flowVars

CallContext ==
  /\ call.pc = "ready" /\ call.fn = "analyzeImageContext"
  /\ call' = IF analyzeImageContextThrows(call.predictions) THEN Threw
             ELSE Returned(analyzeImageContext(call.predictions, call.imageAnalysis))
  /\ UNCHANGED <<heur, modeSel, agg, grid>>
  /\ UNCHANGED concVars
  /\ UNCHANGED flowVars

CallUnknown ==
  /\ call.pc = "ready" /\ call.fn = "shouldClassifyAsUnknown"
  /\ call' = IF shouldClassifyAsUnknownThrows(call.predictions, call.imageAnalysis)
               THEN Threw
             ELSE Returned(shouldClassifyAsUnknown(call.predictions, call.imageAnalysis))
  /\ UNCHANGED <<heur, modeSel, agg, grid>>
  /\ UNCHANGED concVars
  /\ UNCHANGED flowVars

CallQuickScan ==
  /\ call.pc = "ready" /\ call.fn = "simulateQuickScan"
  /\ call' = IF simulateQuickScanThrows(call.predictions) THEN Threw
             ELSE Returned(simulateQuickScan(call.imageAnalysis, call.predictions))
  /\ UNCHANGED <<heur, modeSel, agg, grid>>
  /\ UNCHANGED concVars
  /\ UNCHANGED flowVars

\* aggregateResults on the global predictions alone, no zone having passed
CallAggregate ==
  /\ call.pc = "ready" /\ call.fn = "aggregateResults"
  /\ call' = IF aggregateResultsThrows(call.predictions) THEN Threw
             ELSE Returned(aggregateResults(call.predictions, <<>>))
  /\ UNCHANGED <<heur, modeSel, agg, grid>>
  /\ UNCHANGED concVars
  /\ UNCHANGED flowVars

NextTotal ==
  CallDiversity \/ CallContext \/ CallUnknown \/ CallQuickScan \/ CallAggregate

SpecTotal == InitTotal /\ [][NextTotal]_vars

\* C12: every call of a heuristic function returns a verdict, whatever the
\* prediction list, the empty one included
C12_HeuristicsTotal ==
  call.pc = "done" => call.outcome = "returned"


(***************************************************************************)
(* SpecGrid: createImageGrid on images around the smallest accepted size   *)
(***************************************************************************)
\* the largest width and height of an image given to createImageGrid
MaxGridDim == 157

\* widths and heights: two below the smallest accepted size, the rest above
GridDims == 148..MaxGridDim

InitGrid ==
  /\ grid \in [pc : {"checks"}, width : GridDims, height : GridDims,
               cell : {0}, cells : {<<>>}, zones : {<<>>}]
  /\ heur = HeurIdle
  /\ modeSel = ModeIdle
  /\ agg = AggIdle
  /\ FlowIdle
  /\ call = CallIdle
  /\ ConcIdle

\* the metadata and the size checks before the loop
GridMeasure ==
  /\ grid.pc = "checks"
  /\ grid' = [grid EXCEPT
                !.pc = IF gridCheckError(grid.width, grid.height) = <<>>
                         THEN "cells" ELSE "thrown"]
  /\ UNCHANGED <<heur, modeSel, agg, call>>
  /\ UNCHANGED concVars
  /\ UNCHANGED flowVars

\* one turn of the double loop: the rectangle is computed, the loop skips
\* it or cuts it, and the zone is pushed when its file was written
GridCut ==
  /\ grid.pc = "cells"
  /\ grid.cell < GridSize * GridSize
  /\ LET row == grid.cell \div GridSize
         col == grid.cell % GridSize
         position == cellPosition(row, col, grid.width, grid.height)
     IN  IF cellSkipped(position, grid.width, grid.height)
           THEN grid' = [grid EXCEPT !.cell = @ + 1]
           ELSE \E outcome \in CellOutcomes :
                  grid' = [grid EXCEPT
                             !.cell = @ + 1,
                             !.cells = Append(@, position),
                             !.zones = IF outcome = "written"
                                         THEN Append(@, position) ELSE @]
  /\ UNCHANGED <<heur, modeSel, agg, call>>
  /\ UNCHANGED concVars
  /\ UNCHANGED flowVars

\* after the loop: the zones are returned, or none was created
GridReturn ==
  /\ grid.pc = "cells"
  /\ grid.cell = GridSize * GridSize
  /\ grid' = [grid EXCEPT !.pc = IF grid.zones = <<>> THEN "thrown" ELSE "returned"]
  /\ UNCHANGED <<heur, modeSel, agg, call>>
  /\ UNCHANGED concVars
  /\ UNCHANGED flowVars

NextGrid == GridMeasure \/ GridCut \/ GridReturn

SpecGrid == InitGrid /\ [][NextGrid]_vars

RECURSIVE SumWidths(_)
SumWidths(cells) ==
  IF cells = <<>> THEN 0 ELSE Head(cells).width + SumWidths(Tail(cells))

RECURSIVE SumHeights(_)
SumHeights(cells) ==
  IF cells = <<>> THEN 0 ELSE Head(cells).height + SumHeights(Tail(cells))

RECURSIVE SumAreas(_)
SumAreas(cells) ==
  IF cells = <<>> THEN 0
  ELSE Head(cells).width * Head(cells).height + SumAreas(Tail(cells))

InRow(r) == SelectSeq(grid.cells, LAMBDA p : p.row = r)
InCol(c) == SelectSeq(grid.cells, LAMBDA p : p.col = c)

Disjoint(p, q) ==
  \/ p.left + p.width <= q.left \/ q.left + q.width <= p.left
  \/ p.top + p.height <= q.top \/ q.top + q.height <= p.top

Inside(p) ==
  /\ p.left >= 0 /\ p.top >= 0 /\ p.width > 0 /\ p.height > 0
  /\ p.left + p.width <= grid.width
  /\ p.top + p.height <= grid.height

GridLoopDone == grid.pc \in {"cells", "returned", "thrown"} /\ grid.cell = GridSize * GridSize

\* C19: on an image of at least 150 by 150 the loop computes one rectangle
\* per cell of the 3 by 3 grid; the rectangles are pairwise disjoint and
\* inside the image, the widths of each row add up to the image width, the
\* heights of each column to the image height, and the areas to the image
\* area
C19_CellsPartitionImage ==
  (grid.pc \in {"cells", "returned", "thrown"} /\ grid.width >= 150 /\ grid.height >= 150) =>
    /\ Len(grid.cells) = grid.cell
    /\ \A k \in 1..Len(grid.cells) :
         /\ grid.cells[k].row = (k - 1) \div GridSize
         /\ grid.cells[k].col = (k - 1) % GridSize
         /\ Inside(grid.cells[k])
    /\ \A j, k \in 1..Len(grid.cells) :
         j # k => Disjoint(grid.cells[j], grid.cells[k])
    /\ GridLoopDone =>
         /\ \A r \in 0..(GridSize - 1) : SumWidths(InRow(r)) = grid.width
         /\ \A c \in 0..(GridSize - 1) : SumHeights(InCol(c)) = grid.height
         /\ SumAreas(grid.cells) = grid.width * grid.height

\* the nine rectangles of an image whose width and height leave the
\* remainders 1 and 2: the last column and the last row are larger
C19_Witness ==
  /\ GridLoopDone
  /\ grid.pc = "returned"
  /\ grid.width % GridSize = 1
  /\ grid.height % GridSize = 2
  /\ Len(grid.cells) = GridSize * GridSize
  /\ grid.cells[GridSize * GridSize].width = grid.cells[1].width + 1
  /\ grid.cells[GridSize * GridSize].height = grid.cells[1].height + 2


(***************************************************************************)
(* SpecComplexity: analyzeImageComplexity on files of every size class     *)
(***************************************************************************)
\* file sizes are taken at the multiples of 128 KiB and one byte below
SizeStep == 128 * 1024

\* the largest multiple taken: files up to 2.5 MiB and a little more
MaxSizeSteps == 20

ComplexitySizes ==
  {k * SizeStep + d : k \in 0..MaxSizeSteps, d \in {0, 1, SizeStep - 1}}

InitComplexity ==
  /\ call \in [pc : {"ready"}, fn : {"analyzeImageComplexity"},
               fileSize : ComplexitySizes, outcome : {"none"}]
  /\ grid = GridIdle
  /\ ConcIdle
  /\ heur = HeurIdle
  /\ modeSel = ModeIdle
  /\ agg = AggIdle
  /\ FlowIdle

\* the whole function: statSync succeeds or throws into the catch
AnalyzeImageComplexity ==
  /\ call.pc = "ready" /\ call.fn = "analyzeImageComplexity"
  /\ \E statOk \in BOOLEAN :
       call' = Returned(analyzeImageComplexity(call.fileSize, statOk))
                 @@ [statOk |-> statOk]
  /\ UNCHANGED <<heur, modeSel, agg, grid>>
  /\ UNCHANGED concVars
  /\ UNCHANGED flowVars

NextComplexity == AnalyzeImageComplexity

SpecComplexity == InitComplexity /\ [][NextComplexity]_vars

\* a / b <= c / d and a / b = c / d for positive b, d; equal denominators
\* are compared without the products
FractionLE(a, b, c, d) == IF b = d THEN a <= c ELSE a * d <= c * b
FractionEQ(a, b, c, d) == IF b = d THEN a = c ELSE a * d = c * b

\* C22: analyzeImageComplexity always returns; for a readable file of b
\* bytes the complexity is b / 2 MiB up to 2 MiB and 1 above, lies in
\* [0, 1], is not smaller than that of any smaller file, and regions is
\* floor(4 * complexity) + 1, in 1..5; on a read error the result is
\* complexity 0.3, regions 1
C22_ComplexityTotalAndBounded ==
  (call.pc = "done" /\ call.fn = "analyzeImageComplexity") =>
    /\ call.outcome = "returned"
    /\ LET c == call.value.complexity
           r == call.value.regions
           b == call.fileSize
       IN  /\ c.den > 0 /\ c.num >= 0 /\ c.num <= c.den
           /\ r \in 1..5
           /\ call.statOk =>
                /\ IF b <= 2 * 1024 * 1024
                     THEN FractionEQ(c.num, c.den, b, 2 * 1024 * 1024)
                     ELSE c.num = c.den
                /\ (r - 1) * c.den <= 4 * c.num
                /\ 4 * c.num < r * c.den
                /\ \A smaller \in {s \in ComplexitySizes : s <= b} :
                     LET cs == analyzeImageComplexity(smaller, TRUE).complexity
                     IN  FractionLE(cs.num, cs.den, c.num, c.den)
           /\ ~call.statOk => (c.num * 10 = 3 * c.den /\ r = 1)

\* a file above 2 MiB was measured: complexity 1, five regions
C22_Witness ==
  /\ call.pc = "done" /\ call.fn = "analyzeImageComplexity"
  /\ call.statOk
  /\ call.fileSize > 2 * 1024 * 1024
  /\ call.value.complexity.num = call.value.complexity.den
  /\ call.value.regions = 5


(***************************************************************************)
(* SpecTiling: detectMultipleVegetables calls in flight together on the    *)
(* one event loop, from createImageGrid to cleanupTempFiles, sharing the   *)
(* directory temp_zones.  Nothing of the environment fails here: a write   *)
(* is rejected only when the directory is missing.                         *)
(***************************************************************************)
\* detection calls in flight together
MaxDetections == 2

\* cells each call cuts, out of the gridSize * gridSize of the source
MaxTilingCells == 2

\* Date.now() takes the values 0..MaxClock while the calls run
MaxClock == 1

\* Math.floor(Math.random() * 1000) takes the values 0..MaxRandom
MaxRandom == 1

TilingCalls == 1..MaxDetections
TilingCells == Min(MaxTilingCells, GridSize * GridSize)

\* path.join(tempDir, `zone_${row}_${col}_${timestamp}_${random}.jpg`)
zonePathAt(row, col, timestamp, random) ==
  [row |-> row, col |-> col, timestamp |-> timestamp, random |-> random]

NoPath == [row |-> -1, col |-> -1, timestamp |-> -1, random |-> -1]

\* the files of temp_zones: a path and the call whose pixels it holds
existsSync(disk, path) == \E f \in disk : f.path = path
writeFile(disk, path, c) == {f \in disk : f.path # path} \cup {[path |-> path, by |-> c]}
SeqRange(seq) == {seq[i] : i \in 1..Len(seq)}
unlinkAll(disk, paths) == {f \in disk : f.path \notin paths}

TilingCallStart ==
  [pc |-> "start", cell |-> 0, pending |-> NoPath, written |-> FALSE,
   zones |-> <<>>, zone |-> 0, rejected |-> 0, vanished |-> 0, overwrote |-> 0,
   unread |-> 0, foreign |-> 0, unlinkedForeign |-> 0, outcome |-> "none"]

InitTiling ==
  /\ tiling = [clock |-> 0, dir |-> FALSE, disk |-> {},
               calls |-> [c \in TilingCalls |-> TilingCallStart]]
  /\ service = ServiceIdle
  /\ call = CallIdle /\ grid = GridIdle
  /\ heur = HeurIdle
  /\ modeSel = ModeIdle
  /\ agg = AggIdle
  /\ FlowIdle

TilingOthersUnchanged ==
  /\ UNCHANGED <<heur, modeSel, agg, call, grid, service>>
  /\ UNCHANGED flowVars

\* a millisecond passes
TilingTick ==
  /\ tiling.clock < MaxClock
  /\ \E c \in TilingCalls : tiling.calls[c].pc # "done"
  /\ tiling' = [tiling EXCEPT !.clock = @ + 1]
  /\ TilingOthersUnchanged

\* a turn of the cell loop up to its await: the path is named and
\* sharp().toFile(zonePath) is started
beginCell(this, timestamp, random) ==
  [this EXCEPT
     !.pending = zonePathAt(this.cell \div GridSize, this.cell % GridSize,
                            timestamp, random),
     !.written = FALSE,
     !.pc = "writing"]

\* createImageGrid from the metadata to the first await of the loop: the
\* checks pass, temp_zones is created when it does not exist, the first
\* cell is started
TilingStart(c) ==
  /\ tiling.calls[c].pc = "start"
  /\ \E random \in 0..MaxRandom :
       tiling' = [tiling EXCEPT
                    !.dir = TRUE,
                    !.calls[c] = beginCell(@, tiling.clock, random)]
  /\ TilingOthersUnchanged

\* the write of toFile, off the event loop: it creates or replaces the
\* file, or is rejected because temp_zones is not there
TilingCellWrite(c) ==
  /\ tiling.calls[c].pc = "writing"
  /\ LET path == tiling.calls[c].pending
     IN  IF tiling.dir
           THEN tiling' = [tiling EXCEPT
                             !.disk = writeFile(@, path, c),
                             !.calls[c].written = TRUE,
                             !.calls[c].overwrote =
                                @ + (IF \E f \in tiling.disk : f.path = path /\ f.by # c
                                       THEN 1 ELSE 0),
                             !.calls[c].pc = "resume"]
           ELSE tiling' = [tiling EXCEPT
                             !.calls[c].written = FALSE,
                             !.calls[c].pc = "resume"]
  /\ TilingOthersUnchanged

\* the rest of a turn after its await: a rejected write or a file that is
\* not there goes to the catch of the turn, else the zone is pushed
settleCell(this, disk) ==
  LET next == [this EXCEPT !.cell = @ + 1, !.pending = NoPath, !.written = FALSE]
  IN  IF ~this.written
        THEN [next EXCEPT !.rejected = @ + 1]
        ELSE IF ~existsSync(disk, this.pending)
        THEN [next EXCEPT !.vanished = @ + 1]
        ELSE [next EXCEPT !.zones = Append(@, this.pending)]

\* the event loop resumes the turn: the cell is settled and the next cell
\* is started; after the last cell createImageGrid throws when it has no
\* zone (the catch of detectMultipleVegetables then cleans nothing), or
\* returns, and the zone loop starts its first prediction
TilingCellResume(c) ==
  /\ tiling.calls[c].pc = "resume"
  /\ LET settled == settleCell(tiling.calls[c], tiling.disk)
     IN  IF settled.cell < TilingCells
           THEN \E random \in 0..MaxRandom :
                  tiling' = [tiling EXCEPT
                               !.calls[c] = beginCell(settled, tiling.clock, random)]
           ELSE tiling' = [tiling EXCEPT !.calls[c] =
                             IF settled.zones = <<>>
                               THEN [settled EXCEPT !.pc = "done", !.outcome = "threw"]
                               ELSE [settled EXCEPT !.pc = "zones"]]
  /\ TilingOthersUnchanged

\* classifier.predict on a zone file: a file that is gone throws into the
\* catch of the turn
predictZone(this, disk, c) ==
  LET path == this.zones[this.zone + 1]
  IN  [this EXCEPT
         !.zone = @ + 1,
         !.unread = @ + (IF existsSync(disk, path) THEN 0 ELSE 1),
         !.foreign = @ + (IF \E f \in disk : f.path = path /\ f.by # c THEN 1 ELSE 0)]

\* cleanupTempFiles, which has no await: every zone path that exists is
\* unlinked, then temp_zones is removed when it is empty
cleanupZones(state, this, c) ==
  LET paths == SeqRange(this.zones)
      left  == unlinkAll(state.disk, paths)
  IN  [state EXCEPT
         !.disk = left,
         !.dir = IF state.dir /\ left = {} THEN FALSE ELSE state.dir,
         !.calls[c] =
            [this EXCEPT
               !.unlinkedForeign =
                  Cardinality({f \in state.disk : f.path \in paths /\ f.by # c}),
               !.pc = "done",
               !.outcome = "returned"]]

\* a turn of the zone loop; after the last turn the aggregation and the
\* cleanup run without another await
TilingZonePredict(c) ==
  /\ tiling.calls[c].pc = "zones"
  /\ tiling.calls[c].zone < Len(tiling.calls[c].zones)
  /\ LET predicted == predictZone(tiling.calls[c], tiling.disk, c)
     IN  tiling' = IF predicted.zone < Len(predicted.zones)
                     THEN [tiling EXCEPT !.calls[c] = predicted]
                     ELSE cleanupZones(tiling, predicted, c)
  /\ TilingOthersUnchanged

NextTiling ==
  \/ TilingTick
  \/ \E c \in TilingCalls :
       \/ TilingStart(c)
       \/ TilingCellWrite(c)
       \/ TilingCellResume(c)
       \/ TilingZonePredict(c)

SpecTiling == InitTiling /\ [][NextTiling]_vars

TilingInFlight(c) == tiling.calls[c].pc \notin {"start", "done"}

\* C24: the zone images of the calls in flight all have different paths,
\* and no call has replaced or unlinked a zone image of another call
C24_ZonePathsUnique ==
  tiling # TilingIdle =>
    /\ \A c1, c2 \in TilingCalls :
         (TilingInFlight(c1) /\ TilingInFlight(c2)) =>
           \A i \in 1..Len(tiling.calls[c1].zones), j \in 1..Len(tiling.calls[c2].zones) :
             (c1 # c2 \/ i # j) => tiling.calls[c1].zones[i] # tiling.calls[c2].zones[j]
    /\ \A c \in TilingCalls :
         tiling.calls[c].overwrote = 0 /\ tiling.calls[c].unlinkedForeign = 0

\* C29: whatever the other calls do, every cell of a call is materialized:
\* no write is rejected, no written file is missing when the turn resumes,
\* and the tiling does not end without a zone
C29_TilingIsolated ==
  tiling # TilingIdle =>
    \A c \in TilingCalls :
      /\ tiling.calls[c].rejected = 0
      /\ tiling.calls[c].vanished = 0
      /\ tiling.calls[c].outcome # "threw"


(***************************************************************************)
(* SpecService: the module-level classifier and multiDetector, the         *)
(* initializeClassifiers call made when the module loads, and requests to  *)
(* POST /recognize-vegetable arriving while it runs or after it            *)
(***************************************************************************)
\* requests to the route, besides the call made at module load
MaxRequests == 2

\* caller 0 is the call at module load
ModuleLoad == 0
ServiceCallers == 0..MaxRequests
ServiceRequests == 1..MaxRequests

\* an instance is "null" before new, "loading" while loadModel is awaited,
\* then "loaded" (isModelLoaded = true) or "failed" (loadModel threw and
\* isModelLoaded stays false)
isModelLoaded(instance) == instance = "loaded"

\* plausible slip: an instance whose load failed is loaded again
needsLoadOrFailed(instance) == instance \in {"null", "failed"}

\* if (!classifier), if (!multiDetector)
needsLoad(instance) == instance = "null"

ServiceCallIdle ==
  [pc |-> "idle", sawClassifier |-> "none", usedUnloaded |-> FALSE, status |-> 0]

\* the module has been evaluated: its initializeClassifiers call has made
\* the classifier and awaits classifier.loadModel()
InitService ==
  /\ service = [classifier |-> "loading", multiDetector |-> "null",
                classifierLoads |-> 1,
                calls |-> [c \in ServiceCallers |->
                             IF c = ModuleLoad
                               THEN [ServiceCallIdle EXCEPT !.pc = "awaitClassifier",
                                                            !.sawClassifier = "null"]
                               ELSE ServiceCallIdle]]
  /\ tiling = TilingIdle
  /\ call = CallIdle /\ grid = GridIdle
  /\ heur = HeurIdle
  /\ modeSel = ModeIdle
  /\ agg = AggIdle
  /\ FlowIdle

ServiceOthersUnchanged ==
  /\ UNCHANGED <<heur, modeSel, agg, call, grid, tiling>>
  /\ UNCHANGED flowVars

\* a call that settles: the promise of the module-load call ends there, a
\* rejected request is answered 500 by the catch of the route
settled(this, c, resolved) ==
  IF resolved THEN [this EXCEPT !.pc = "resolved"]
  ELSE IF c = ModuleLoad THEN [this EXCEPT !.pc = "rejected"]
  ELSE [this EXCEPT !.pc = "done", !.status = 500]

\* initializeClassifiers from the test of multiDetector on
detectorPart(state, c) ==
  IF needsLoad(state.multiDetector)
    THEN [state EXCEPT !.multiDetector = "loading", !.calls[c].pc = "awaitDetector"]
    ELSE [state EXCEPT !.calls[c] = settled(@, c, TRUE)]

\* initializeClassifiers from its start to its first await, or to its
\* return when both instances exist
classifierPart(state, c) ==
  IF needsLoad(state.classifier)
    THEN [state EXCEPT !.classifier = "loading",
                       !.classifierLoads = @ + 1,
                       !.calls[c].pc = "awaitClassifier"]
    ELSE detectorPart(state, c)

\* a request arrives and the route awaits initializeClassifiers()
ServiceRequest(c) ==
  /\ c \in ServiceRequests
  /\ service.calls[c].pc = "idle"
  /\ service' = classifierPart(
                  [service EXCEPT !.calls[c].sawClassifier = service.classifier], c)
  /\ ServiceOthersUnchanged

\* classifier.loadModel() settles in the call that awaits it
ServiceClassifierLoad(c) ==
  /\ service.calls[c].pc = "awaitClassifier"
  /\ \E ok \in BOOLEAN :
       service' = IF ok
                    THEN detectorPart([service EXCEPT !.classifier = "loaded"], c)
                    ELSE [service EXCEPT !.classifier = "failed",
                                         !.calls[c] = settled(@, c, FALSE)]
  /\ ServiceOthersUnchanged

\* multiDetector.loadModel() settles in the call that awaits it
ServiceDetectorLoad(c) ==
  /\ service.calls[c].pc = "awaitDetector"
  /\ \E ok \in BOOLEAN :
       service' = [service EXCEPT
                     !.multiDetector = IF ok THEN "loaded" ELSE "failed",
                     !.calls[c] = settled(@, c, ok)]
  /\ ServiceOthersUnchanged

\* determineDetectionMode: classifier.predict throws when the model is not
\* loaded, and the catch answers mode single; a loaded model gives either
\* mode, or fails and gives single
ServiceDetermineMode(c) ==
  /\ c \in ServiceRequests
  /\ service.calls[c].pc = "resolved"
  /\ IF isModelLoaded(service.classifier)
       THEN \E mode \in {"single", "multiple"} :
              service' = [service EXCEPT !.calls[c].pc = mode]
       ELSE service' = [service EXCEPT !.calls[c].pc = "single",
                                       !.calls[c].usedUnloaded = TRUE]
  /\ ServiceOthersUnchanged

\* performMultipleDetection: the detector's own classifier predicts; any
\* error falls back to performSingleDetection
ServiceMultiple(c) ==
  /\ service.calls[c].pc = "multiple"
  /\ IF isModelLoaded(service.multiDetector)
       THEN \E ok \in BOOLEAN :
              service' = IF ok
                           THEN [service EXCEPT !.calls[c].pc = "done",
                                                !.calls[c].status = 200]
                           ELSE [service EXCEPT !.calls[c].pc = "single"]
       ELSE service' = [service EXCEPT !.calls[c].pc = "single"]
  /\ ServiceOthersUnchanged

\* performSingleDetection: classifier.classify calls predict; an error goes
\* to the catch of the route
ServiceSingle(c) ==
  /\ service.calls[c].pc = "single"
  /\ IF isModelLoaded(service.classifier)
       THEN \E ok \in BOOLEAN :
              service' = [service EXCEPT !.calls[c].pc = "done",
                                         !.calls[c].status = IF ok THEN 200 ELSE 500]
       ELSE service' = [service EXCEPT !.calls[c].pc = "done",
                                       !.calls[c].status = 500,
                                       !.calls[c].usedUnloaded = TRUE]
  /\ ServiceOthersUnchanged

NextService ==
  \E c \in ServiceCallers :
    \/ ServiceRequest(c)
    \/ ServiceClassifierLoad(c)
    \/ ServiceDetectorLoad(c)
    \/ ServiceDetermineMode(c)
    \/ ServiceMultiple(c)
    \/ ServiceSingle(c)

SpecService == InitService /\ [][NextService]_vars

\* C28: a call of initializeClassifiers that has resolved finds both models
\* loaded, and no request has called predict on a classifier that was not
\* loaded
C28_ResolvedMeansLoaded ==
  service # ServiceIdle =>
    \A c \in ServiceCallers :
      /\ service.calls[c].pc = "resolved" =>
           (isModelLoaded(service.classifier) /\ isModelLoaded(service.multiDetector))
      /\ ~service.calls[c].usedUnloaded

\* C30: once the first load of the shared classifier has failed the
\* instance stays, not loaded; no call of initializeClassifiers loads it
\* again or waits for a load of it; every request past initializeClassifiers has had predict throw,
\* never gets the mode multiple, and every answered request is answered 500
C30_FailedLoadIsPermanent ==
  (service # ServiceIdle /\ service.classifier = "failed") =>
    /\ service.classifierLoads = 1
    /\ ~isModelLoaded(service.classifier)
    /\ \A c \in ServiceCallers : service.calls[c].pc # "awaitClassifier"
    /\ \A c \in ServiceRequests :
         /\ service.calls[c].pc # "multiple"
         /\ service.calls[c].pc = "single" => service.calls[c].usedUnloaded
         /\ service.calls[c].pc = "done" => service.calls[c].status = 500

\* a request that arrived after the load had failed, found the detector
\* loaded, went through determineDetectionMode and the single path, and was
\* answered 500
C30_Witness ==
  /\ service # ServiceIdle
  /\ service.classifier = "failed"
  /\ isModelLoaded(service.multiDetector)
  /\ \E c \in ServiceRequests :
       /\ service.calls[c].sawClassifier = "failed"
       /\ service.calls[c].pc = "done"
       /\ service.calls[c].usedUnloaded
       /\ service.calls[c].status = 500

====
